---- MODULE Spec2Model ----
(***************************************************************************)
(* GrowthOS backend (Express handlers over the Firebase Realtime Database  *)
(* and the Gemini completion API) and the dashboards' direct store writes. *)
(*                                                                         *)
(* Three revisions of the backend are in the repository:                   *)
(*   "A"  src/backend/src/index.js                                         *)
(*   "B"  src/unnamed/part_000, lines 1-270                                *)
(*   "C"  src/unnamed/part_000, lines 272-572                              *)
(* One of them is deployed; rev says which.                                *)
(***************************************************************************)
EXTENDS Integers, Sequences, FiniteSets, TLC

VARIABLES
    rev,          \* the deployed backend revision
    now,          \* Date.now()
    leaves,       \* rtdb "leaves":     key -> record
    attendance,   \* rtdb "attendance": <<uid, date>> -> record
    users,        \* rtdb "users":       uid -> record (revisions A, B and the dashboards)
    departments,  \* rtdb "departments": department -> uid -> record (revision C)
    aiInsights,   \* rtdb "aiInsights":  the entries pushed, oldest first
    aiAlerts,     \* rtdb "aiAlerts":    the entries pushed, oldest first
    firestore,    \* the collections performance, sales and projects
    http,         \* per client session: the request in flight or its response
    lastAction,   \* history: key -> status of the last leave-action write the store applied
    accounts,     \* the identity provider: uid -> email of the accounts created
    call,         \* an application of a helper function: its arguments, then its result
    currentUser,  \* browser: auth.currentUser, a uid or "none"
    notes,        \* browser: per auth-state listener, the users it is yet to be called with
    route,        \* browser: the location, and history: who navigated to it and before
    login,        \* browser: the Login page's state and its handler's position
    guard,        \* browser: the AuthGuard's state
    chat          \* browser: the FloatingAIChat's state and its requests in flight

vars == <<rev, now, leaves, attendance, users, departments, aiInsights, aiAlerts,
          firestore, http, lastAction, accounts, call,
          currentUser, notes, route, login, guard, chat>>

\* the browser's side: what no request handler of the backend touches
signIn == <<currentUser, notes, route, login, guard>>
frontend == <<signIn, chat>>

\* what the leave and attendance operations never touch
people == <<users, departments, accounts>>
aiStores == <<aiInsights, aiAlerts, firestore>>

(* ------------------------------------------------------------------ *)
(* Bounds                                                               *)
(* ------------------------------------------------------------------ *)
MaxTime == 1
MaxLeaves == 2
DayLength == 2
MaxLog == 2
MaxAccounts == 2
MaxSales == 2
MaxWords == 2
MaxNotes == 2
MaxAsks == 3

Revs == {"A", "B", "C"}
Sessions == {"s1", "s2"}
Times == 0..MaxTime

(* ------------------------------------------------------------------ *)
(* JavaScript values                                                    *)
(* ------------------------------------------------------------------ *)
\* a field that the request body does not carry
Undefined == "<undefined>"

\* !v for a string or undefined v
Falsy(v) == v \in {Undefined, ""}

\* `${v}` in a template literal
Template(v) == IF v = Undefined THEN "undefined" ELSE v

Idle == [pc |-> "idle"]

\* f with x mapped to v, x added to the domain when it is not in it
Put(f, x, v) == [y \in DOMAIN f \cup {x} |-> IF y = x THEN v ELSE f[y]]

Empty == [x \in {} |-> x]

\* Text that the server trims or compares is a sequence of pieces, each a word
\* or the white space " "; "HR Department" is <<"HR", " ", "Department">>.
Missing == <<Undefined>>          \* the body does not carry the field
NotAString == <<"<number>">>      \* the body carries a number
Null == <<"<null>">>
EmptyText == <<>>

RECURSIVE TrimStart(_)
TrimStart(t) == IF t # <<>> /\ Head(t) = " " THEN TrimStart(Tail(t)) ELSE t

RECURSIVE TrimEnd(_)
TrimEnd(t) ==
    IF t # <<>> /\ t[Len(t)] = " " THEN TrimEnd(SubSeq(t, 1, Len(t) - 1)) ELSE t

\* String.prototype.trim
Trim(t) == TrimEnd(TrimStart(t))

\* !v for a text, undefined or null v
FalsyText(v) == v \in {Missing, Null, EmptyText}

\* const safeKey = (v) => ...
safeKey(v) == IF FalsyText(v) \/ v = NotAString THEN Null ELSE Trim(v)

(* ------------------------------------------------------------------ *)
(* Leaves                                                               *)
(* ------------------------------------------------------------------ *)
\* push keys, in the order push() generates them
PushKeySeq == <<"L1", "L2", "L3", "L4">>
PushKeys == {PushKeySeq[i] : i \in 1..MaxLeaves}

\* the keys in use: stored, or handed to a request whose write is in flight
KeysTaken ==
    DOMAIN leaves \cup
    {http[s].id : s \in {t \in Sessions :
        http[t].pc = "await" /\ http[t].op \in {"leave/request", "applyLeave"}}}

CanPush == PushKeys \ KeysTaken # {}

\* ref("leaves").push().key: a key no record uses
NewPushKeyReused == PushKeySeq[1]
NewPushKey ==
    PushKeySeq[CHOOSE i \in 1..MaxLeaves :
        /\ PushKeySeq[i] \notin KeysTaken
        /\ \A j \in 1..(i - 1) : PushKeySeq[j] \in KeysTaken]

Uids == {"u1", "u2"}

\* LeaveRequest.status as the dashboards declare it
LeaveStatuses == {"PENDING", "APPROVED", "REJECTED"}

\* an identifier no push() produced
StrayId == "zz"

StoreError == "store write failed"

Ok == [success |-> TRUE]
Err(m) == [error |-> m]

\* request bodies of POST /leave/request
LeaveRequestBodies ==
    {[uid |-> u, from |-> "d1", to |-> "d2", reason |-> "sick"] : u \in Uids}
    \cup {[uid |-> "u1", from |-> "d1", to |-> "d2", reason |-> Undefined]}

\* request bodies of POST /leave/action
LeaveActionBodies ==
    {[leaveId |-> k, status |-> st] :
        k \in DOMAIN leaves \cap PushKeys, st \in {"APPROVED", "REJECTED"}}
    \cup {[leaveId |-> StrayId, status |-> "BOGUS"],
          [leaveId |-> Undefined, status |-> "APPROVED"],
          [leaveId |-> "L1", status |-> Undefined]}

\* the record POST /leave/request and applyLeave write
LeaveRecord(b, t) ==
    [uid |-> b.uid, from |-> b.from, to |-> b.to, reason |-> b.reason,
     status |-> "PENDING", createdAt |-> t]

\* admin SDK: set() throws before any write when the value holds undefined
HasUndefined(b) == \E f \in DOMAIN b : b[f] = Undefined

\* ref(`leaves/${id}`).set(rec)
SetLeave(store, id, rec) == Put(store, id, rec)

\* ref(`leaves/${id}/status`).set(status): only the status child is written
SetLeaveStatusBroken(store, id, status) == Put(store, id, [status |-> status])
SetLeaveStatusIfPending(store, id, status) ==
    IF id \in DOMAIN store
    THEN IF store[id].status = "PENDING"
         THEN [store EXCEPT ![id] = Put(store[id], "status", status)]
         ELSE store
    ELSE Put(store, id, [status |-> status])
SetLeaveStatus(store, id, status) ==
    IF id \in DOMAIN store
    THEN [store EXCEPT ![id] = Put(store[id], "status", status)]
    ELSE Put(store, id, [status |-> status])

Free(s) == http[s].pc \in {"idle", "done"}

\* a request answered: what the client sees of it
Done(r, code, res) == [pc |-> "done", op |-> r.op, code |-> code, res |-> res]

Respond(s, op, code, res) ==
    http' = [http EXCEPT ![s] = Done([op |-> op], code, res)]

\* POST /leave/request, up to its await of set()
LeaveRequestStart(s, b) ==
    /\ Free(s)
    /\ IF rev = "C" /\ (Falsy(b.uid) \/ Falsy(b.from) \/ Falsy(b.to) \/ Falsy(b.reason))
       THEN Respond(s, "leave/request", 400, Err("Invalid leave data"))
       ELSE IF HasUndefined(b)
       THEN Respond(s, "leave/request", 500, Err("set failed: value contains undefined"))
       ELSE /\ CanPush
            /\ http' = [http EXCEPT ![s] =
                    [pc |-> "await", op |-> "leave/request", id |-> NewPushKey,
                     req |-> b, createdAt |-> now]]
    /\ UNCHANGED <<frontend, rev, call, now, leaves, attendance, lastAction, people, aiStores>>

\* the store applies or refuses the write; the handler answers
LeaveRequestSettle(s) ==
    /\ http[s].pc = "await" /\ http[s].op = "leave/request"
    /\ \/ /\ leaves' = SetLeave(leaves, http[s].id, LeaveRecord(http[s].req, http[s].createdAt))
          /\ http' = [http EXCEPT ![s] = Done(@, 200, Ok)]
       \/ /\ leaves' = leaves
          /\ http' = [http EXCEPT ![s] =
                  Done(@, 500, Err(StoreError))]
    /\ UNCHANGED <<frontend, rev, call, now, attendance, lastAction, people, aiStores>>

\* POST /leave/action, up to its await of set()
LeaveActionStart(s, b) ==
    /\ Free(s)
    /\ IF rev = "C" /\ (Falsy(b.leaveId) \/ Falsy(b.status))
       THEN Respond(s, "leave/action", 400, Err("leaveId & status required"))
       ELSE IF b.status = Undefined
       THEN Respond(s, "leave/action", 500, Err("set failed: value contains undefined"))
       ELSE http' = [http EXCEPT ![s] =
                [pc |-> "await", op |-> "leave/action", id |-> Template(b.leaveId),
                 status |-> b.status]]
    /\ UNCHANGED <<frontend, rev, call, now, leaves, attendance, lastAction, people, aiStores>>

\* the store applies or refuses the status write; the handler answers
LeaveActionSettle(s) ==
    /\ http[s].pc = "await" /\ http[s].op = "leave/action"
    /\ \/ /\ leaves' = SetLeaveStatus(leaves, http[s].id, http[s].status)
          /\ lastAction' = Put(lastAction, http[s].id, http[s].status)
          /\ http' = [http EXCEPT ![s] = Done(@, 200, Ok)]
       \/ /\ UNCHANGED <<leaves, lastAction>>
          /\ http' = [http EXCEPT ![s] =
                  Done(@, 500, Err(StoreError))]
    /\ UNCHANGED <<frontend, rev, call, now, attendance, people, aiStores>>

\* HRDashboard.updateLeave(id, status): offered for the leaves the dashboard shows as PENDING
UpdateLeaveStart(s, id, status) ==
    /\ Free(s)
    /\ id \in DOMAIN leaves
    /\ "status" \in DOMAIN leaves[id] /\ leaves[id].status = "PENDING"
    /\ status \in {"APPROVED", "REJECTED"}
    /\ http' = [http EXCEPT ![s] =
            [pc |-> "await", op |-> "updateLeave", id |-> id, status |-> status]]
    /\ UNCHANGED <<frontend, rev, call, now, leaves, attendance, lastAction, people, aiStores>>

\* set() of updateLeave resolves or rejects; nothing in the dashboard observes which
UpdateLeaveSettle(s) ==
    /\ http[s].pc = "await" /\ http[s].op = "updateLeave"
    /\ \/ /\ leaves' = SetLeaveStatus(leaves, http[s].id, http[s].status)
          /\ lastAction' = Put(lastAction, http[s].id, http[s].status)
          /\ http' = [http EXCEPT ![s] = Idle]
       \/ /\ UNCHANGED <<leaves, lastAction>>
          /\ http' = [http EXCEPT ![s] = Idle]
    /\ UNCHANGED <<frontend, rev, call, now, attendance, people, aiStores>>

\* EmployeeDashboard.applyLeave, up to its await of push()
ApplyLeaveStart(s, uid, from, to, reason) ==
    /\ Free(s)
    /\ IF Falsy(from) \/ Falsy(to) \/ Falsy(reason)
       THEN Respond(s, "applyLeave", 0, Err("All fields required"))
       ELSE /\ CanPush
            /\ http' = [http EXCEPT ![s] =
                    [pc |-> "await", op |-> "applyLeave", id |-> NewPushKey,
                     req |-> [uid |-> uid, from |-> from, to |-> to, reason |-> reason],
                     createdAt |-> now]]
    /\ UNCHANGED <<frontend, rev, call, now, leaves, attendance, lastAction, people, aiStores>>

\* push() of applyLeave resolves or rejects
ApplyLeaveSettle(s) ==
    /\ http[s].pc = "await" /\ http[s].op = "applyLeave"
    /\ \/ /\ leaves' = SetLeave(leaves, http[s].id, LeaveRecord(http[s].req, http[s].createdAt))
          /\ http' = [http EXCEPT ![s] =
                  Done(@, 0, [msg |-> "Leave applied"])]
       \/ /\ leaves' = leaves
          /\ http' = [http EXCEPT ![s] =
                  Done(@, 0, Err(StoreError))]
    /\ UNCHANGED <<frontend, rev, call, now, attendance, lastAction, people, aiStores>>

(* ------------------------------------------------------------------ *)
(* Attendance                                                           *)
(* ------------------------------------------------------------------ *)
\* new Date(t).toISOString().split("T")[0]: the calendar day of t
DateOf(t) == t \div DayLength

\* the record POST /attendance/mark writes; revision A writes no status
MarkRecord(uid, t) ==
    IF rev = "A"
    THEN [uid |-> uid, date |-> DateOf(t), time |-> t]
    ELSE [uid |-> uid, date |-> DateOf(t), time |-> t, status |-> "PRESENT"]

\* ref(`attendance/${uid}/${date}`).set(rec): the record is replaced
SetAttendance(store, uid, date, rec) == Put(store, <<uid, date>>, rec)

\* update(ref(`attendance/${uid}/${date}`), {checkOut}): the other children are kept
UpdateCheckOut(store, uid, date, t) ==
    IF <<uid, date>> \in DOMAIN store
    THEN [store EXCEPT ![<<uid, date>>] = Put(@, "checkOut", t)]
    ELSE Put(store, <<uid, date>>, [checkOut |-> t])

\* POST /attendance/mark, up to its await of set()
AttendanceMarkStart(s, uid) ==
    /\ Free(s)
    /\ IF rev = "C" /\ Falsy(uid)
       THEN Respond(s, "attendance/mark", 400, Err("uid required"))
       ELSE IF uid = Undefined
       THEN Respond(s, "attendance/mark", 500, Err("set failed: value contains undefined"))
       ELSE http' = [http EXCEPT ![s] =
                [pc |-> "await", op |-> "attendance/mark", uid |-> uid,
                 date |-> DateOf(now), rec |-> MarkRecord(uid, now)]]
    /\ UNCHANGED <<frontend, rev, call, now, leaves, attendance, lastAction, people, aiStores>>

\* the store applies or refuses the write; the handler answers
AttendanceMarkSettle(s) ==
    /\ http[s].pc = "await" /\ http[s].op = "attendance/mark"
    /\ \/ /\ attendance' = SetAttendance(attendance, http[s].uid, http[s].date, http[s].rec)
          /\ http' = [http EXCEPT ![s] = Done(@, 200, Ok)]
       \/ /\ attendance' = attendance
          /\ http' = [http EXCEPT ![s] = Done(@, 500, Err(StoreError))]
    /\ UNCHANGED <<frontend, rev, call, now, leaves, lastAction, people, aiStores>>

\* what the employee dashboard shows for today: the stored record's checkIn and checkOut
Shown(uid, field) ==
    /\ <<uid, DateOf(now)>> \in DOMAIN attendance
    /\ field \in DOMAIN attendance[<<uid, DateOf(now)>>]

\* EmployeeDashboard.checkIn: the button is offered while no check-in is shown
CheckInStart(s, uid) ==
    /\ Free(s)
    /\ ~Shown(uid, "checkIn")
    /\ http' = [http EXCEPT ![s] =
            [pc |-> "await", op |-> "checkIn", uid |-> uid, date |-> DateOf(now),
             rec |-> [date |-> DateOf(now), checkIn |-> now]]]
    /\ UNCHANGED <<frontend, rev, call, now, leaves, attendance, lastAction, people, aiStores>>

\* set() of checkIn resolves or rejects; nothing in the dashboard observes which
CheckInSettle(s) ==
    /\ http[s].pc = "await" /\ http[s].op = "checkIn"
    /\ \/ attendance' = SetAttendance(attendance, http[s].uid, http[s].date, http[s].rec)
       \/ attendance' = attendance
    /\ http' = [http EXCEPT ![s] = Idle]
    /\ UNCHANGED <<frontend, rev, call, now, leaves, lastAction, people, aiStores>>

\* EmployeeDashboard.checkOut: offered while a check-in and no check-out is shown
CheckOutStart(s, uid) ==
    /\ Free(s)
    /\ Shown(uid, "checkIn") /\ ~Shown(uid, "checkOut")
    /\ http' = [http EXCEPT ![s] =
            [pc |-> "await", op |-> "checkOut", uid |-> uid, date |-> DateOf(now),
             time |-> now]]
    /\ UNCHANGED <<frontend, rev, call, now, leaves, attendance, lastAction, people, aiStores>>

\* update() of checkOut resolves or rejects
CheckOutSettle(s) ==
    /\ http[s].pc = "await" /\ http[s].op = "checkOut"
    /\ \/ attendance' = UpdateCheckOut(attendance, http[s].uid, http[s].date, http[s].time)
       \/ attendance' = attendance
    /\ http' = [http EXCEPT ![s] = Idle]
    /\ UNCHANGED <<frontend, rev, call, now, leaves, lastAction, people, aiStores>>

(* ------------------------------------------------------------------ *)
(* AI helpers: strings are sequences of characters                      *)
(* ------------------------------------------------------------------ *)
UpperCase == <<"A", "B", "C", "D", "E", "F", "G", "H", "I", "J", "K", "L", "M",
               "N", "O", "P", "Q", "R", "S", "T", "U", "V", "W", "X", "Y", "Z">>
LowerCase == <<"a", "b", "c", "d", "e", "f", "g", "h", "i", "j", "k", "l", "m",
               "n", "o", "p", "q", "r", "s", "t", "u", "v", "w", "x", "y", "z">>

\* String.prototype.toLowerCase
toLowerCase(p) ==
    [i \in 1..Len(p) |->
        IF \E j \in 1..Len(UpperCase) : UpperCase[j] = p[i]
        THEN LowerCase[CHOOSE j \in 1..Len(UpperCase) : UpperCase[j] = p[i]]
        ELSE p[i]]

\* String.prototype.includes
includes(p, w) == \E i \in 0..(Len(p) - Len(w)) : SubSeq(p, i + 1, i + Len(w)) = w

\* a request body without prompt
NoPrompt == <<Undefined>>

\* const detectIntent = (prompt = "") => ...
detectIntentLeaveFirst(prompt) ==
    LET p == toLowerCase(IF prompt = NoPrompt THEN <<>> ELSE prompt) IN
    IF includes(p, <<"l", "e", "a", "v", "e">>) THEN "LEAVE"
    ELSE IF includes(p, <<"a", "t", "t", "e", "n", "d", "a", "n", "c", "e">>)
         THEN "ATTENDANCE"
    ELSE "GENERAL"
detectIntent(prompt) ==
    LET p == toLowerCase(IF prompt = NoPrompt THEN <<>> ELSE prompt) IN
    IF includes(p, <<"a", "t", "t", "e", "n", "d", "a", "n", "c", "e">>) THEN "ATTENDANCE"
    ELSE IF includes(p, <<"l", "e", "a", "v", "e">>) THEN "LEAVE"
    ELSE IF includes(p, <<"e", "m", "p", "l", "o", "y", "e", "e">>)
            \/ includes(p, <<"s", "t", "a", "f", "f">>) THEN "EMPLOYEE"
    ELSE IF includes(p, <<"p", "e", "r", "f", "o", "r", "m", "a", "n", "c", "e">>)
         THEN "PERFORMANCE"
    ELSE IF includes(p, <<"s", "a", "l", "e", "s">>)
            \/ includes(p, <<"r", "e", "v", "e", "n", "u", "e">>) THEN "SALES"
    ELSE IF includes(p, <<"p", "r", "o", "j", "e", "c", "t">>) THEN "PROJECT"
    ELSE IF includes(p, <<"r", "i", "s", "k">>) THEN "RISK"
    ELSE IF includes(p, <<"g", "r", "o", "w", "t", "h">>) THEN "GROWTH"
    ELSE "GENERAL"

\* f restricted to the fields in S
Only(f, S) == [x \in S |-> f[x]]

\* pickRelevantData(intent, data)
pickRelevantDataWithUsers(intent, data) ==
    IF intent \in {"RISK", "GROWTH", "GENERAL"} THEN data
    ELSE Only(data, {"users", "sales"})
pickRelevantData(intent, data) ==
    CASE intent = "EMPLOYEE" -> Only(data, {"users"})
      [] intent = "ATTENDANCE" -> Only(data, {"attendance", "users"})
      [] intent = "LEAVE" -> Only(data, {"leaves", "users"})
      [] intent = "PERFORMANCE" -> Only(data, {"performance"})
      [] intent = "SALES" -> Only(data, {"sales"})
      [] intent = "PROJECT" -> Only(data, {"projects"})
      [] OTHER -> data

RECURSIVE SumAmountsTruthy(_)
\* sales.reduce((s, x) => s + (x.amount || 0), 0)
SumAmountsTruthy(sales) ==
    IF sales = <<>> THEN 0
    ELSE IF "amount" \in DOMAIN sales[Len(sales)]
    THEN SumAmountsTruthy(SubSeq(sales, 1, Len(sales) - 1)) + sales[Len(sales)].amount
    ELSE 0

RECURSIVE SumAmounts(_)
\* sales.reduce((s, x) => s + (x.amount || 0), 0)
SumAmounts(sales) ==
    IF sales = <<>> THEN 0
    ELSE SumAmounts(SubSeq(sales, 1, Len(sales) - 1))
         + (IF "amount" \in DOMAIN sales[Len(sales)] THEN sales[Len(sales)].amount ELSE 0)

\* e.department, as the key of departmentWise
DepartmentKey(u) ==
    IF "department" \in DOMAIN u /\ u.department # Missing THEN u.department
    ELSE <<"undefined">>

\* calculateMetrics of revisions A and B: employees are the users with role EMPLOYEE
EmployeeMetricsByDepartment(data) ==
    LET employees == {u \in DOMAIN data.users :
                        "role" \in DOMAIN data.users[u]
                        /\ data.users[u].role = <<"EMPLOYEE">>}
        depts == {data.users[u].department :
                    u \in {e \in employees : "department" \in DOMAIN data.users[e]}}
    IN [totalEmployees |-> Cardinality(employees),
        departmentWise |->
            [d \in depts |->
                Cardinality({u \in employees : DepartmentKey(data.users[u]) = d})],
        leaveRequests |-> Cardinality(DOMAIN data.leaves),
        projects |-> Len(data.projects),
        totalSales |-> 0]
EmployeeMetrics(data) ==
    LET employees == {u \in DOMAIN data.users :
                        "role" \in DOMAIN data.users[u] /\ data.users[u].role = <<"EMPLOYEE">>}
        depts == {DepartmentKey(data.users[u]) : u \in employees}
    IN [totalEmployees |-> Cardinality(employees),
        departmentWise |->
            [d \in depts |->
                Cardinality({u \in employees : DepartmentKey(data.users[u]) = d})],
        leaveRequests |-> Cardinality(DOMAIN data.leaves),
        projects |-> Len(data.projects),
        totalSales |-> SumAmounts(data.sales)]

\* Object.keys(data.attendance).length: the users that have attendance records
AttendanceKeys(data) == Cardinality({k[1] : k \in DOMAIN data.attendance})

RECURSIVE SumCounts(_, _)
\* the counts f[d] of the departments d in S, added up in the forEach of revision C
SumCounts(f, S) ==
    IF S = {} THEN 0
    ELSE LET d == CHOOSE x \in S : TRUE IN f[d] + SumCounts(f, S \ {d})

\* calculateMetrics of revision C: every record under departments counts
DepartmentMetrics(data) ==
    LET departmentWise ==
            [d \in DOMAIN data.departments |-> Cardinality(DOMAIN data.departments[d])]
    IN [totalEmployees |-> SumCounts(departmentWise, DOMAIN departmentWise),
        departmentWise |-> departmentWise]

\* calculateMetrics(data), per revision
calculateMetrics(r, data) ==
    CASE r = "A" -> EmployeeMetrics(data) @@ [attendanceRecords |-> AttendanceKeys(data)]
      [] r = "B" -> EmployeeMetrics(data) @@ [attendanceCount |-> AttendanceKeys(data)]
      [] OTHER -> DepartmentMetrics(data)

(* ------------------------------------------------------------------ *)
(* AI endpoints                                                         *)
(* ------------------------------------------------------------------ *)
\* the reads getCompanyData issues together, under Promise.all
RtdbReads(r) ==
    CASE r = "A" -> {"users", "attendance", "leaves", "aiAlerts"}
      [] r = "B" -> {"users", "attendance", "leaves", "aiAlerts", "aiConfig"}
      [] OTHER -> {"departments", "attendance", "leaves"}

\* the reads getCompanyData issues after them, each awaited before the next
FirestoreReads(r) ==
    IF r \in {"A", "B"} THEN <<"performance", "sales", "projects">> ELSE <<>>

\* the field of the aggregate a read fills
DataField(x) == IF x = "aiAlerts" THEN "alerts" ELSE x

DataFields(r) ==
    {DataField(x) : x \in RtdbReads(r)}
    \cup {FirestoreReads(r)[i] : i \in 1..Len(FirestoreReads(r))}

\* snap.val() || default, docs.map(d => d.data())
ReadValue(x) ==
    CASE x = "users" -> users
      [] x = "attendance" -> attendance
      [] x = "leaves" -> leaves
      [] x = "aiAlerts" -> aiAlerts
      [] x = "aiConfig" -> [autoRun |-> FALSE]
      [] x = "departments" -> departments
      [] OTHER -> firestore[x]

ReadError == "store read failed"
ApiErrors == {"429 quota exceeded"}
Replies == {"reply1", "reply2"}

\* ${prompt} in a template literal
TemplateText(p) ==
    IF p = NoPrompt THEN <<"u", "n", "d", "e", "f", "i", "n", "e", "d">> ELSE p

\* the text handed to generateContent, as the parts interpolated into it
ComposePrompt(r, op, prompt, data, metrics) ==
    IF op = "ai/auto-run" THEN [persona |-> "autonomous monitoring"]
    ELSE CASE r = "A" -> [metrics |-> metrics, data |-> data,
                          question |-> TemplateText(prompt)]
           [] r = "B" -> [intent |-> detectIntent(prompt), metrics |-> metrics,
                          data |-> pickRelevantData(detectIntent(prompt), data),
                          question |-> TemplateText(prompt)]
           [] OTHER -> [metrics |-> metrics, data |-> data,
                        question |-> TemplateText(prompt)]

\* the catch block: what the client gets when stage threw e
Fail(r, stage, e) ==
    [pc |-> "done", op |-> r.op, code |-> 500,
     res |-> IF rev = "C" THEN [reply |-> "AI failed"] ELSE Err(e),
     calls |-> r.calls, failed |-> stage]

\* res.json(body)
Finish(r, body) ==
    [pc |-> "done", op |-> r.op, code |-> 200, res |-> body,
     calls |-> r.calls, failed |-> "nothing"]

\* the aggregate is complete: metrics are computed and generateContent is called
Generate(r, data) ==
    [pc |-> "gen", op |-> r.op, prompt |-> r.prompt, raw |-> r.raw, data |-> data,
     metrics |-> calculateMetrics(rev, data),
     sent |-> ComposePrompt(rev, r.op, r.prompt, data, calculateMetrics(rev, data)),
     calls |-> r.calls + 1]

\* read x failed: Promise.all or the awaited get() rejects
AfterReadErrorIgnored(r, x) ==
    LET data == Put(r.data, DataField(x), Empty) IN
    IF r.pend # {x} THEN [r EXCEPT !.pend = @ \ {x}, !.data = data]
    ELSE IF r.todo # <<>>
    THEN [r EXCEPT !.pend = {Head(r.todo)}, !.todo = Tail(r.todo), !.data = data]
    ELSE Generate(r, data)
AfterReadError(r, x) == Fail(r, "read", ReadError)

\* read x returned v
AfterReadThenFanOut(r, x, v) ==
    LET data == Put(r.data, DataField(x), v) IN
    IF r.pend # {x} THEN [r EXCEPT !.pend = @ \ {x}, !.data = data]
    ELSE IF r.todo # <<>>
    THEN [r EXCEPT !.pend = {r.todo[i] : i \in 1..Len(r.todo)}, !.todo = <<>>,
                   !.data = data]
    ELSE Generate(r, data)
AfterRead(r, x, v) ==
    LET data == Put(r.data, DataField(x), v) IN
    IF r.pend # {x} THEN [r EXCEPT !.pend = @ \ {x}, !.data = data]
    ELSE IF r.todo # <<>>
    THEN [r EXCEPT !.pend = {Head(r.todo)}, !.todo = Tail(r.todo), !.data = data]
    ELSE Generate(r, data)

\* the entry the handler pushes after the completion
LogEntryFull(r, reply) ==
    IF r.op = "ai/auto-run"
    THEN [message |-> reply, metrics |-> r.metrics, createdAt |-> now]
    ELSE [prompt |-> r.prompt, intent |-> detectIntent(r.prompt), reply |-> reply,
          metrics |-> r.metrics, createdAt |-> now]
LogEntry(r, reply) ==
    IF r.op = "ai/auto-run"
    THEN [message |-> reply, metrics |-> r.metrics, createdAt |-> now]
    ELSE IF rev = "A"
    THEN [prompt |-> r.prompt, reply |-> reply, metrics |-> r.metrics, createdAt |-> now]
    ELSE [prompt |-> r.prompt, intent |-> detectIntent(r.prompt), reply |-> reply,
          createdAt |-> now]

\* generateContent returned reply
AfterCompletion(r, reply) ==
    IF rev = "C" THEN Finish(r, [reply |-> reply])
    ELSE IF r.op = "ai/query" /\ r.prompt = NoPrompt
    THEN Fail(r, "push", "push failed: value contains undefined")
    ELSE [pc |-> "push", op |-> r.op, entry |-> LogEntry(r, reply), calls |-> r.calls]

\* generateContent threw e
AfterCompletionError(r, e) == Fail(r, "completion", e)

\* push() resolved
AfterPush(r) ==
    Finish(r, IF r.op = "ai/query" THEN [reply |-> r.entry.reply] ELSE Ok)

\* push() rejected
AfterPushError(r) == Fail(r, "push", StoreError)

\* AI requests in flight
AiInFlight == {s \in Sessions : http[s].pc \in {"reads", "gen", "push"}}

\* the logs are capped: a request is taken while an entry of its own still fits
LogRoom == Len(aiInsights) + Len(aiAlerts) + Cardinality(AiInFlight) < MaxLog

\* POST /ai/query, up to its await of the reads: const { prompt } = req.body
AiQueryStart(s, b) ==
    /\ Free(s)
    /\ IF rev = "C" /\ b.prompt \in {NoPrompt, <<>>}
       THEN http' = [http EXCEPT ![s] =
                [pc |-> "done", op |-> "ai/query", code |-> 400,
                 res |-> [reply |-> "Prompt required"], calls |-> 0,
                 failed |-> "validation"]]
       ELSE /\ LogRoom
            /\ http' = [http EXCEPT ![s] =
                    [pc |-> "reads", op |-> "ai/query", prompt |-> b.prompt,
                     raw |-> b, pend |-> RtdbReads(rev), todo |-> FirestoreReads(rev),
                     data |-> Empty, calls |-> 0]]
    /\ UNCHANGED <<frontend, rev, call, now, leaves, attendance, lastAction, people, aiStores>>

\* POST /ai/auto-run, a route of revision A only
AutoRunStart(s) ==
    /\ Free(s)
    /\ IF rev # "A"
       THEN http' = [http EXCEPT ![s] =
                [pc |-> "done", op |-> "ai/auto-run", code |-> 404,
                 res |-> Err("Cannot POST /ai/auto-run"), calls |-> 0,
                 failed |-> "route"]]
       ELSE /\ LogRoom
            /\ http' = [http EXCEPT ![s] =
                    [pc |-> "reads", op |-> "ai/auto-run", prompt |-> NoPrompt,
                     raw |-> Empty, pend |-> RtdbReads(rev), todo |-> FirestoreReads(rev),
                     data |-> Empty, calls |-> 0]]
    /\ UNCHANGED <<frontend, rev, call, now, leaves, attendance, lastAction, people, aiStores>>

\* one of the reads in flight completes
ReadSettle(s, x) ==
    /\ http[s].pc = "reads"
    /\ x \in http[s].pend
    /\ \/ http' = [http EXCEPT ![s] = AfterRead(@, x, ReadValue(x))]
       \/ http' = [http EXCEPT ![s] = AfterReadError(@, x)]
    /\ UNCHANGED <<frontend, rev, call, now, leaves, attendance, lastAction, people, aiStores>>

\* generateContent completes
CompletionSettle(s) ==
    /\ http[s].pc = "gen"
    /\ \/ \E reply \in Replies : http' = [http EXCEPT ![s] = AfterCompletion(@, reply)]
       \/ \E e \in ApiErrors : http' = [http EXCEPT ![s] = AfterCompletionError(@, e)]
    /\ UNCHANGED <<frontend, rev, call, now, leaves, attendance, lastAction, people, aiStores>>

\* push() completes: the store appends the entry or refuses it
PushSettle(s) ==
    /\ http[s].pc = "push"
    /\ \/ /\ IF http[s].op = "ai/query"
             THEN aiInsights' = Append(aiInsights, http[s].entry) /\ aiAlerts' = aiAlerts
             ELSE aiAlerts' = Append(aiAlerts, http[s].entry) /\ aiInsights' = aiInsights
          /\ http' = [http EXCEPT ![s] = AfterPush(@)]
       \/ /\ UNCHANGED <<aiInsights, aiAlerts>>
          /\ http' = [http EXCEPT ![s] = AfterPushError(@)]
    /\ UNCHANGED <<frontend, rev, call, now, leaves, attendance, lastAction, people, firestore>>

(* ------------------------------------------------------------------ *)
(* Employees                                                            *)
(* ------------------------------------------------------------------ *)
\* the uids the identity provider hands out, in order
UidSeq == <<"n1", "n2", "n3", "n4">>
NewUids == {UidSeq[i] : i \in 1..MaxAccounts}

\* user.uid of the account createUser makes
NewUid ==
    UidSeq[CHOOSE i \in 1..MaxAccounts :
              /\ UidSeq[i] \notin DOMAIN accounts
              /\ \A j \in 1..(i - 1) : UidSeq[j] \in DOMAIN accounts]

\* a body with every field any revision reads
FullBody ==
    [fullName |-> <<"N">>, email |-> <<"n@x">>, password |-> <<"secret1">>,
     dob |-> <<"2000-01-01">>, skills |-> <<"go">>, role |-> <<"ENGINEER">>,
     department |-> <<"Engineering">>, hrUid |-> <<"h1">>, createdBy |-> <<"h1">>]

\* the request bodies of POST /create-employee
CreateEmployeeBodies ==
    {FullBody,
     [FullBody EXCEPT !.email = <<"m@x">>, !.role = <<"HR">>,
                      !.department = <<" ", "HR", " ", "Department", " ">>],
     \* a department of the HR dashboard's list
     [FullBody EXCEPT !.email = <<"m@x">>, !.role = <<"HR">>,
                      !.department = <<"HR">>],
     [FullBody EXCEPT !.fullName = Missing],
     [FullBody EXCEPT !.email = Missing],
     [FullBody EXCEPT !.department = <<" ">>],
     \* what HRDashboard.createEmployee sends
     [FullBody EXCEPT !.role = Missing, !.dob = Missing, !.skills = Missing,
                      !.createdBy = Missing],
     [FullBody EXCEPT !.email = <<"a@x">>],
     [FullBody EXCEPT !.password = <<"123">>]}

\* the passwords the identity provider refuses: fewer than six characters
WeakPasswords == {<<"123">>}

EmailExists == "The email address is already in use by another account."
WeakPassword == "The password must be a string with at least 6 characters."
InvalidEmail == "The email address is improperly formatted."
IdpDown == "identity provider unavailable"

\* the rejections createUser({ email, password }) must raise
IdpRejections(email, password) ==
    (IF \E u \in DOMAIN accounts : accounts[u] = email /\ email # Missing
     THEN {EmailExists} ELSE {})
    \cup (IF password \in WeakPasswords THEN {WeakPassword} ELSE {})

\* if (!fullName || !email || !password || !department || !role), department
\* being safeKey(department)
MissingRequired(b) ==
    \E f \in {"fullName", "email", "password", "role"} : FalsyText(b[f])
    \/ FalsyText(safeKey(b.department))

\* the record POST /create-employee sets, per revision
UserRecordUntrimmed(b, uid, t) ==
    IF rev = "C"
    THEN [uid |-> uid, fullName |-> b.fullName, email |-> b.email, role |-> b.role,
          accountType |-> IF b.department = <<"HR", " ", "Department">>
                          THEN "HR" ELSE "EMPLOYEE",
          status |-> "ACTIVE", createdAt |-> t,
          createdBy |-> IF FalsyText(b.createdBy) THEN Null ELSE b.createdBy]
    ELSE [fullName |-> b.fullName, email |-> b.email, dob |-> b.dob,
          skills |-> b.skills, role |-> b.role, department |-> b.department,
          status |-> "ACTIVE", createdBy |-> b.hrUid, createdAt |-> t]
UserRecord(b, uid, t) ==
    IF rev = "C"
    THEN [uid |-> uid, fullName |-> b.fullName, email |-> b.email, role |-> b.role,
          accountType |-> IF safeKey(b.department) = <<"HR", " ", "Department">>
                          THEN "HR" ELSE "EMPLOYEE",
          status |-> "ACTIVE", createdAt |-> t,
          createdBy |-> IF FalsyText(b.createdBy) THEN Null ELSE b.createdBy]
    ELSE [fullName |-> b.fullName, email |-> b.email, dob |-> b.dob,
          skills |-> b.skills, role |-> b.role, department |-> b.department,
          status |-> "ACTIVE", createdBy |-> b.hrUid, createdAt |-> t]

\* set() throws for a value that holds undefined
HoldsUndefined(rec) ==
    \E f \in DOMAIN rec \ {"uid", "accountType", "status", "createdAt"} :
        rec[f] = Missing

\* ref(`users/${uid}`).set(rec)
SetUser(store, uid, rec) == Put(store, uid, rec)

\* ref(`departments/${department}/${uid}`).set(rec)
SetDepartmentUser(store, d, uid, rec) ==
    Put(store, d, Put(IF d \in DOMAIN store THEN store[d] ELSE Empty, uid, rec))

\* the create-employee requests that have not yet reached the identity provider
Creating == {s \in Sessions : http[s].pc = "idp"}

\* POST /create-employee, up to its await of createUser
CreateEmployeeStart(s, b) ==
    /\ Free(s)
    /\ IF rev = "C" /\ MissingRequired(b)
       THEN Respond(s, "create-employee", 400,
                Err("fullName, email, password, department & role are required"))
       ELSE /\ Cardinality(DOMAIN accounts \cap NewUids) + Cardinality(Creating)
                 < MaxAccounts
            /\ http' = [http EXCEPT ![s] =
                    [pc |-> "idp", op |-> "create-employee", req |-> b]]
    /\ UNCHANGED <<frontend, rev, call, now, leaves, attendance, lastAction, people, aiStores>>

\* the slot after createUser resolved with uid: the handler builds the record
\* and calls set(), which throws when the record holds undefined
AfterCreateUser(r, uid) ==
    IF HoldsUndefined(UserRecord(r.req, uid, now))
    THEN Done(r, 500, Err("set failed: value argument contains undefined"))
    ELSE [pc |-> "set", op |-> r.op, req |-> r.req, uid |-> uid,
          rec |-> UserRecord(r.req, uid, now)]

\* createUser rejected with message e: catch (e)
AfterCreateUserErrorHidden(r, e) == Done(r, 500, Err("Server error"))
AfterCreateUserError(r, e) == Done(r, 500, Err(e))

\* createUser settles: the provider makes the account or rejects
CreateUserSettle(s) ==
    /\ http[s].pc = "idp"
    /\ LET b == http[s].req
           must == IdpRejections(b.email, b.password)
       IN \/ /\ must = {}
             /\ accounts' = Put(accounts, NewUid, b.email)
             /\ http' = [http EXCEPT ![s] = AfterCreateUser(@, NewUid)]
          \/ /\ \E e \in must \cup {IdpDown}
                         \cup (IF b.email = Missing THEN {InvalidEmail} ELSE {}) :
                   http' = [http EXCEPT ![s] = AfterCreateUserError(@, e)]
             /\ accounts' = accounts
    /\ UNCHANGED <<frontend, rev, call, now, leaves, attendance, lastAction, users, departments,
                   aiStores>>

\* set() settles: the store applies the record or refuses it
CreateEmployeeSettle(s) ==
    /\ http[s].pc = "set"
    /\ \/ /\ IF rev = "C"
             THEN /\ departments' = SetDepartmentUser(departments,
                                       safeKey(http[s].req.department),
                                       http[s].uid, http[s].rec)
                  /\ users' = users
             ELSE /\ users' = SetUser(users, http[s].uid, http[s].rec)
                  /\ departments' = departments
          /\ http' = [http EXCEPT ![s] =
                  Done(@, 200, [success |-> TRUE, uid |-> http[s].uid])]
       \/ /\ UNCHANGED <<users, departments>>
          /\ http' = [http EXCEPT ![s] = Done(@, 500, Err(StoreError))]
    /\ UNCHANGED <<frontend, rev, call, now, leaves, attendance, lastAction, accounts, aiStores>>

(* ------------------------------------------------------------------ *)
(* Login verification (revision C)                                      *)
(* ------------------------------------------------------------------ *)
\* the request bodies of POST /auth/verify-login
LoginEmails ==
    {<<"a@x">>, <<" ", "a@x">>, <<"b@x">>, <<"h@x">>, <<"m@x">>, <<"z@x">>}
LoginDepartments ==
    {<<"Engineering">>, <<"HR", " ", "Department">>, <<"HR">>, <<"Marketing">>}
LoginRoles == {<<"EMPLOYEE">>, <<"HR">>}
LoginBodies ==
    [email : LoginEmails, department : LoginDepartments, role : LoginRoles]
    \cup [email : {<<" ">>, Missing}, department : {<<"Engineering">>},
          role : {<<"EMPLOYEE">>}]
    \cup [email : {<<"a@x">>}, department : {NotAString}, role : {<<"EMPLOYEE">>}]
    \cup [email : {<<"a@x">>}, department : {<<"Engineering">>}, role : {EmptyText}]

\* the order in which a snapshot enumerates its children: by key
KeyOrder == <<"h1", "n1", "n2", "n3", "n4", "u1", "u2">>
KeyRank(k) == CHOOSE i \in 1..Len(KeyOrder) : KeyOrder[i] = k

Denied(reason) == [authorized |-> FALSE, reason |-> reason]

\* the body verify-login answers from the snapshot of departments/{department}
DecideWithoutExists(store, email, department, role) ==
    LET snap == IF department \in DOMAIN store THEN store[department] ELSE Empty
        hits == {k \in DOMAIN snap : snap[k].email = email}
    IN IF hits = {} THEN Denied("User not found in department")
       ELSE LET foundUid == CHOOSE k \in hits : \A j \in hits : KeyRank(j) <= KeyRank(k)
            IN IF snap[foundUid].role # role THEN Denied("Role mismatch")
               ELSE IF snap[foundUid].status # "ACTIVE" THEN Denied("User inactive")
               ELSE [authorized |-> TRUE, uid |-> foundUid, department |-> department,
                     role |-> role,
                     dashboard |-> IF snap[foundUid].accountType = "HR"
                                   THEN "/hr/dashboard" ELSE "/employee/dashboard"]
DecideWithoutStatus(store, email, department, role) ==
    LET snap == IF department \in DOMAIN store THEN store[department] ELSE Empty
        hits == {k \in DOMAIN snap : snap[k].email = email}
    IN IF DOMAIN snap = {} THEN Denied("Department not found")
       ELSE IF hits = {} THEN Denied("User not found in department")
       ELSE LET foundUid == CHOOSE k \in hits : \A j \in hits : KeyRank(j) <= KeyRank(k)
            IN IF snap[foundUid].role # role THEN Denied("Role mismatch")
               ELSE [authorized |-> TRUE, uid |-> foundUid, department |-> department,
                     role |-> role,
                     dashboard |-> IF snap[foundUid].accountType = "HR"
                                   THEN "/hr/dashboard" ELSE "/employee/dashboard"]
Decide(store, email, department, role) ==
    IF department \notin DOMAIN store \/ DOMAIN store[department] = {}
    THEN Denied("Department not found")
    ELSE LET snap == store[department]
             hits == {k \in DOMAIN snap :
                        "email" \in DOMAIN snap[k] /\ snap[k].email = email}
         IN IF hits = {} THEN Denied("User not found in department")
            ELSE LET foundUid == CHOOSE k \in hits :
                                    \A j \in hits : KeyRank(j) <= KeyRank(k)
                     foundUser == snap[foundUid]
                 IN IF foundUser.role # role THEN Denied("Role mismatch")
                    ELSE IF foundUser.status # "ACTIVE" THEN Denied("User inactive")
                    ELSE [authorized |-> TRUE, uid |-> foundUid,
                          department |-> department, role |-> role,
                          dashboard |-> IF foundUser.accountType = "HR"
                                        THEN "/hr/dashboard"
                                        ELSE "/employee/dashboard"]

\* res.json(body) of verify-login, the request body b kept beside it
LoginDone(b, code, body) ==
    [pc |-> "done", op |-> "auth/verify-login", code |-> code, res |-> body,
     raw |-> b]

\* POST /auth/verify-login, up to its await of the snapshot
VerifyLoginStart(s, b) ==
    /\ Free(s)
    /\ IF rev # "C"
       THEN http' = [http EXCEPT ![s] =
                LoginDone(b, 404, Err("Cannot POST /auth/verify-login"))]
       ELSE IF \E f \in {"email", "department", "role"} : FalsyText(safeKey(b[f]))
       THEN http' = [http EXCEPT ![s] =
                LoginDone(b, 200, Denied("Missing login data"))]
       ELSE http' = [http EXCEPT ![s] =
                [pc |-> "lookup", op |-> "auth/verify-login", raw |-> b,
                 email |-> safeKey(b.email), department |-> safeKey(b.department),
                 role |-> safeKey(b.role)]]
    /\ UNCHANGED <<frontend, rev, call, now, leaves, attendance, lastAction, people, aiStores>>

\* the snapshot arrives, or the read fails
VerifyLoginSettle(s) ==
    /\ http[s].pc = "lookup"
    /\ \/ http' = [http EXCEPT ![s] =
              LoginDone(@.raw, 200, Decide(departments, @.email, @.department, @.role))]
       \/ http' = [http EXCEPT ![s] = LoginDone(@.raw, 500, Denied("Server error"))]
    /\ UNCHANGED <<frontend, rev, call, now, leaves, attendance, lastAction, people, aiStores>>

(* ------------------------------------------------------------------ *)
(* Browser: sign-in, the Login page and the AuthGuard                   *)
(* ------------------------------------------------------------------ *)
\* what the browser's side never touches
backend == <<rev, now, leaves, attendance, users, departments, aiInsights, aiAlerts,
             firestore, http, lastAction, accounts, call>>

\* auth.currentUser when nobody is signed in
SignedOut == "none"

\* the routes of App
Dashboards == {"/hr/dashboard", "/employee/dashboard"}
Paths == {"/", "/login"} \cup Dashboards

\* the components that subscribe with onAuthStateChanged while they are mounted
Listeners == {"Login", "AuthGuard"}
Mounted(path) ==
    IF path = "/login" THEN {"Login"}
    ELSE IF path \in Dashboards THEN {"AuthGuard"} ELSE {}

NoNotes == [l \in Listeners |-> <<>>]

\* Login's useState initial values, its handler not running
LoginPage == [pc |-> "idle", loading |-> FALSE, error |-> "", went |-> "none"]

\* AuthGuard's useState initial values
Guarding == [loading |-> TRUE, user |-> FALSE]

\* the password every account of the model was created with
Password == <<"secret1">>

\* what the user has filled in when pressing Login
LoginForms ==
    {[email |-> <<"h@x">>, password |-> Password, role |-> <<"HR">>,
      department |-> EmptyText],
     [email |-> <<"a@x">>, password |-> Password, role |-> <<"EMPLOYEE">>,
      department |-> <<"Engineering">>],
     [email |-> <<"a@x">>, password |-> Password, role |-> <<"HR">>,
      department |-> EmptyText],
     [email |-> <<"a@x">>, password |-> Password, role |-> <<"EMPLOYEE">>,
      department |-> <<"Sales">>],
     [email |-> <<"a@x">>, password |-> <<"bad">>, role |-> <<"EMPLOYEE">>,
      department |-> <<"Engineering">>],
     [email |-> <<"n@x">>, password |-> Password, role |-> <<"EMPLOYEE">>,
      department |-> <<"Engineering">>],
     [email |-> EmptyText, password |-> Password, role |-> <<"HR">>,
      department |-> EmptyText],
     [email |-> <<"a@x">>, password |-> Password, role |-> <<"EMPLOYEE">>,
      department |-> EmptyText]}

\* the errors signInWithEmailAndPassword and get() reject with; one has no message
InvalidCredential == "Firebase: Error (auth/invalid-credential)."
NetworkFailed == "Firebase: Error (auth/network-request-failed)."
PermissionDenied == "Permission denied"

\* err.message || "Login failed"
Message(e) == IF e = "" THEN "Login failed" ELSE e

\* snap.val().f
Field(rec, f) == IF f \in DOMAIN rec THEN rec[f] ELSE Missing

\* role === "HR" ? "/hr/dashboard" : "/employee/dashboard"
DashboardOfEmployee(role) == "/employee/dashboard"
DashboardOf(role) ==
    IF role = <<"HR">> THEN "/hr/dashboard" ELSE "/employee/dashboard"

\* the calls a listener is yet to receive are capped: the user changes while
\* every subscribed listener has room for one more
NotesRoom == \A l \in Mounted(route.path) : Len(notes[l]) < MaxNotes

\* the auth client calls the subscribed listeners when the user changes to u
Notify(u) ==
    [l \in Listeners |->
        IF l \in Mounted(route.path) /\ u # currentUser
        THEN Append(notes[l], u) ELSE notes[l]]

\* the location becomes path: the components of the old route unmount and
\* unsubscribe, those of the new one mount with their initial state and
\* subscribe, which has them called with the current user
NavigateDropsNothing(path, by) ==
    /\ route' = [path |-> path, by |-> by, before |-> route.by]
    /\ IF path = route.path THEN UNCHANGED <<notes, guard>>
       ELSE /\ notes' = [l \in Listeners |->
                            IF l \in Mounted(path) THEN <<currentUser>>
                            ELSE notes[l]]
            /\ guard' = Guarding
Navigate(path, by) ==
    /\ route' = [path |-> path, by |-> by, before |-> route.by]
    /\ IF path = route.path THEN UNCHANGED <<notes, guard>>
       ELSE /\ notes' = [l \in Listeners |->
                            IF l \in Mounted(path) THEN <<currentUser>> ELSE <<>>]
            /\ guard' = Guarding

\* the user follows a link or enters a location
Visit(path) ==
    /\ path # route.path
    /\ path = "/login" => login.pc = "idle"
    /\ Navigate(path, "user")
    /\ login' = IF path = "/login" THEN LoginPage ELSE login
    /\ UNCHANGED <<currentUser, chat, backend>>

\* the slot of the handler when it ends with error message e
LoginFailed(e) == [pc |-> "idle", loading |-> FALSE, error |-> e, went |-> "none"]

\* login(), up to its await of signInWithEmailAndPassword
LoginStart(f) ==
    /\ route.path = "/login"
    /\ login.pc = "idle"
    /\ login' =
          IF f.email = EmptyText \/ f.password = EmptyText \/ f.role = EmptyText
          THEN LoginFailed("All fields are required")
          ELSE IF f.role = <<"EMPLOYEE">> /\ f.department = EmptyText
          THEN LoginFailed("Please select department")
          ELSE [pc |-> "signin", loading |-> TRUE, error |-> "", went |-> "none",
                form |-> f]
    /\ UNCHANGED <<currentUser, notes, route, guard, chat, backend>>

\* signInWithEmailAndPassword settles: the user is signed in, or it rejects
SignInSettle ==
    /\ login.pc = "signin"
    /\ \/ \E uid \in DOMAIN accounts :
             /\ accounts[uid] = login.form.email
             /\ login.form.password = Password
             /\ NotesRoom
             /\ currentUser' = uid
             /\ notes' = Notify(uid)
             /\ login' = [pc |-> "get", loading |-> TRUE, error |-> "",
                          went |-> "none", form |-> login.form, uid |-> uid]
       \/ \E e \in {InvalidCredential, NetworkFailed, ""} :
             /\ e = InvalidCredential
                => ~\E uid \in DOMAIN accounts :
                      /\ accounts[uid] = login.form.email
                      /\ login.form.password = Password
             /\ login' = LoginFailed(Message(e))
             /\ UNCHANGED <<currentUser, notes>>
    /\ UNCHANGED <<route, guard, chat, backend>>

\* get(ref(db, `users/${uid}`)) settles: the checks, and the redirect
GetSettle ==
    /\ login.pc = "get"
    /\ LET f == login.form
           uid == login.uid
       IN \/ /\ \E e \in {PermissionDenied, ""} : login' = LoginFailed(Message(e))
             /\ UNCHANGED <<route, notes, guard>>
          \/ IF uid \notin DOMAIN users
             THEN /\ login' = LoginFailed("User record not found")
                  /\ UNCHANGED <<route, notes, guard>>
             ELSE IF Field(users[uid], "role") # f.role
             THEN /\ login' = LoginFailed("Role mismatch")
                  /\ UNCHANGED <<route, notes, guard>>
             ELSE IF f.role = <<"EMPLOYEE">>
                     /\ Field(users[uid], "department") # f.department
             THEN /\ login' = LoginFailed("Wrong department selected")
                  /\ UNCHANGED <<route, notes, guard>>
             ELSE /\ login' = [pc |-> "idle", loading |-> FALSE, error |-> "",
                               went |-> DashboardOf(f.role)]
                  /\ Navigate(DashboardOf(f.role), "Login")
    /\ UNCHANGED <<currentUser, chat, backend>>

\* Login's auth-state listener is called
LoginNotified ==
    /\ notes["Login"] # <<>>
    /\ IF Head(notes["Login"]) # SignedOut
       THEN Navigate("/", "listener")
       ELSE /\ notes' = [notes EXCEPT !["Login"] = Tail(@)]
            /\ UNCHANGED <<route, guard>>
    /\ UNCHANGED <<currentUser, login, chat, backend>>

\* the state AuthGuard is left with by a call of its listener with user u
GuardSees(u) == [loading |-> FALSE, user |-> u # SignedOut]

\* AuthGuard's auth-state listener is called; it renders <Navigate to="/">
\* when there is no user
GuardNotified ==
    /\ notes["AuthGuard"] # <<>>
    /\ IF GuardSees(Head(notes["AuthGuard"])).user
       THEN /\ guard' = GuardSees(Head(notes["AuthGuard"]))
            /\ notes' = [notes EXCEPT !["AuthGuard"] = Tail(@)]
            /\ route' = route
       ELSE Navigate("/", "AuthGuard")
    /\ UNCHANGED <<currentUser, login, chat, backend>>

\* the guarded page at path is on screen
Rendered(path) == route.path = path /\ ~guard.loading /\ guard.user

\* the Logout button of a dashboard: signOut(auth)
SignOut ==
    /\ \E d \in Dashboards : Rendered(d)
    /\ currentUser # SignedOut
    /\ NotesRoom
    /\ currentUser' = SignedOut
    /\ notes' = Notify(SignedOut)
    /\ UNCHANGED <<route, login, guard, chat, backend>>

(* ------------------------------------------------------------------ *)
(* Browser: the floating chat window                                    *)
(* ------------------------------------------------------------------ *)
\* FloatingAIChat's useState initial values, no request in flight
ChatClosed ==
    [open |-> FALSE, input |-> EmptyText, messages |-> <<>>, loading |-> FALSE,
     unread |-> 0, mode |-> "BOTH", pending |-> {}, asked |-> 0]

\* what the user types into the input
ChatInputs == {EmptyText, <<" ">>, <<"hi", " ">>}

\* the bodies res.json() resolves with: a reply, or an error without one
ChatBodies == {[reply |-> <<"reply1">>], [error |-> <<"429 quota exceeded">>],
               [reply |-> EmptyText]}

NoReply == <<"AI could not generate a response.">>
Unavailable == <<"AI service unavailable. Check backend.">>

\* data.reply || "AI could not generate a response."
ReplyText(data) ==
    IF "reply" \in DOMAIN data /\ data.reply # EmptyText THEN data.reply ELSE NoReply

Msg(role, text) == [role |-> role, text |-> text, time |-> now]

\* the floating button: setOpen(true); setUnread(0)
ChatOpen ==
    /\ ~chat.open
    /\ chat' = [chat EXCEPT !.open = TRUE, !.unread = 0]
    /\ UNCHANGED <<signIn, backend>>

\* the X of the header: setOpen(false)
ChatClose ==
    /\ chat.open
    /\ chat' = [chat EXCEPT !.open = FALSE]
    /\ UNCHANGED <<signIn, backend>>

\* the mode select and the input field, with the window open
SetMode(m) ==
    /\ chat.open
    /\ chat' = [chat EXCEPT !.mode = m]
    /\ UNCHANGED <<signIn, backend>>

SetInput(text) ==
    /\ chat.open
    /\ chat' = [chat EXCEPT !.input = text]
    /\ UNCHANGED <<signIn, backend>>

\* the state askAI leaves when it has sent its request; asked counts the calls
Asked(c) ==
    [c EXCEPT !.input = EmptyText,
              !.loading = TRUE,
              !.messages = Append(@, Msg("user", c.input)),
              !.pending = @ \cup {[id |-> c.asked + 1, prompt |-> c.input,
                                    mode |-> c.mode, open |-> c.open]},
              !.asked = @ + 1]

\* a request of askAI has ended: finally { setLoading(false) }
Settled(c, q) == [c EXCEPT !.pending = @ \ {q}, !.loading = FALSE]

\* askAI, up to its await of fetch; the calls are capped
AskAI ==
    /\ chat.open
    /\ chat.asked < MaxAsks
    /\ chat' = IF Trim(chat.input) = EmptyText
               THEN [chat EXCEPT !.asked = @ + 1]
               ELSE Asked(chat)
    /\ UNCHANGED <<signIn, backend>>

\* fetch and res.json() of the id-th call settle: a body arrives, or they reject
FetchSettle(id) ==
    /\ \E q \in chat.pending :
          /\ q.id = id
          /\ \/ \E data \in ChatBodies :
                   chat' = [Settled(chat, q) EXCEPT
                               !.messages = Append(@, Msg("ai", ReplyText(data))),
                               !.unread = IF q.open THEN @ ELSE @ + 1]
             \/ chat' = [Settled(chat, q) EXCEPT
                            !.messages = Append(@, Msg("ai", Unavailable))]
    /\ UNCHANGED <<signIn, backend>>

(* ------------------------------------------------------------------ *)
(* Company records the stores hold from the start                       *)
(* ------------------------------------------------------------------ *)
\* as POST /create-employee of revisions A and B writes them
SampleUsers ==
    [h1 |-> [fullName |-> <<"H">>, email |-> <<"h@x">>, role |-> <<"HR">>,
             department |-> <<"HR", " ", "Department">>, status |-> "ACTIVE"],
     u1 |-> [fullName |-> <<"A">>, email |-> <<"a@x">>, role |-> <<"EMPLOYEE">>,
             department |-> <<"Engineering">>, status |-> "ACTIVE"],
     u2 |-> [fullName |-> <<"B">>, email |-> <<"b@x">>, role |-> <<"EMPLOYEE">>,
             department |-> <<"Sales">>, status |-> "ACTIVE"]]

\* as POST /create-employee of revision C writes them; u2 was deactivated since
SampleDepartments ==
    (<<"HR", " ", "Department">> :>
        [h1 |-> [uid |-> "h1", fullName |-> <<"H">>, email |-> <<"h@x">>,
                 role |-> <<"HR">>, accountType |-> "HR", status |-> "ACTIVE"]])
    @@ (<<"Engineering">> :>
        [u1 |-> [uid |-> "u1", fullName |-> <<"A">>, email |-> <<"a@x">>,
                 role |-> <<"EMPLOYEE">>, accountType |-> "EMPLOYEE",
                 status |-> "ACTIVE"],
         u2 |-> [uid |-> "u2", fullName |-> <<"B">>, email |-> <<"b@x">>,
                 role |-> <<"EMPLOYEE">>, accountType |-> "EMPLOYEE",
                 status |-> "INACTIVE"]])

\* the accounts of the identity provider behind those records
SampleAccounts == [h1 |-> <<"h@x">>, u1 |-> <<"a@x">>, u2 |-> <<"b@x">>]

SampleFirestore ==
    [performance |-> <<[uid |-> "u1", score |-> 4]>>,
     sales |-> <<[amount |-> 3], [customer |-> "c"], [amount |-> 2]>>,
     projects |-> <<[name |-> "p"]>>]

\* the clock advances
Tick ==
    /\ now < MaxTime
    /\ now' = now + 1
    /\ UNCHANGED <<frontend, rev, call, leaves, attendance, http, lastAction, people, aiStores>>

Init ==
    /\ rev \in Revs
    /\ now = 0
    /\ leaves = Empty
    /\ attendance = Empty
    /\ users = SampleUsers
    /\ departments = SampleDepartments
    /\ aiInsights = <<>>
    /\ aiAlerts = <<>>
    /\ firestore = SampleFirestore
    /\ http = [s \in Sessions |-> Idle]
    /\ lastAction = Empty
    /\ accounts = SampleAccounts
    /\ call = Idle
    /\ currentUser = SignedOut
    /\ notes = NoNotes
    /\ route = [path |-> "/", by |-> "user", before |-> "user"]
    /\ login = LoginPage
    /\ guard = Guarding
    /\ chat = ChatClosed

NextLeave ==
    \/ \E s \in Sessions, b \in LeaveRequestBodies : LeaveRequestStart(s, b)
    \/ \E s \in Sessions : LeaveRequestSettle(s)
    \/ \E s \in Sessions, b \in LeaveActionBodies : LeaveActionStart(s, b)
    \/ \E s \in Sessions : LeaveActionSettle(s)
    \/ \E s \in Sessions, id \in DOMAIN leaves, st \in {"APPROVED", "REJECTED"} :
          UpdateLeaveStart(s, id, st)
    \/ \E s \in Sessions : UpdateLeaveSettle(s)
    \/ \E s \in Sessions, u \in Uids, r \in {"sick", ""} :
          ApplyLeaveStart(s, u, "d1", "d2", r)
    \/ \E s \in Sessions : ApplyLeaveSettle(s)

SpecLeave == Init /\ [][NextLeave]_vars

NextAttendance ==
    \/ Tick
    \/ \E s \in Sessions, u \in Uids \cup {Undefined} : AttendanceMarkStart(s, u)
    \/ \E s \in Sessions : AttendanceMarkSettle(s)
    \/ \E s \in Sessions, u \in Uids : CheckInStart(s, u)
    \/ \E s \in Sessions : CheckInSettle(s)
    \/ \E s \in Sessions, u \in Uids : CheckOutStart(s, u)
    \/ \E s \in Sessions : CheckOutSettle(s)

SpecAttendance == Init /\ [][NextAttendance]_vars

\* the request bodies of POST /ai/query: "Leave?", "hi" and no prompt
Prompts == {<<"L", "e", "a", "v", "e", "?">>, <<"h", "i">>, NoPrompt}

\* type AIMode of the chat window
AIModes == {"JARVIS", "GEMI", "BOTH"}

\* the bodies the chat window posts, and a body without a prompt
AiQueryBodies ==
    {[prompt |-> p, mode |-> "BOTH"] : p \in Prompts}
    \cup {[prompt |-> <<"h", "i">>, mode |-> m] : m \in AIModes}

AllReads == {"users", "attendance", "leaves", "aiAlerts", "aiConfig", "departments",
             "performance", "sales", "projects"}

NextAI ==
    \/ \E s \in Sessions, b \in AiQueryBodies : AiQueryStart(s, b)
    \/ \E s \in Sessions : AutoRunStart(s)
    \/ \E s \in Sessions, x \in AllReads : ReadSettle(s, x)
    \/ \E s \in Sessions : CompletionSettle(s)
    \/ \E s \in Sessions : PushSettle(s)

SpecAI == Init /\ [][NextAI]_vars

\* a browser signs in and moves between the pages while HR creates an employee
NextWeb ==
    \/ \E path \in Paths : Visit(path)
    \/ \E f \in LoginForms : LoginStart(f)
    \/ SignInSettle
    \/ GetSettle
    \/ LoginNotified
    \/ GuardNotified
    \/ SignOut
    \/ CreateEmployeeStart("s1", FullBody)
    \/ CreateUserSettle("s1")
    \/ CreateEmployeeSettle("s1")

SpecWeb == Init /\ [][NextWeb]_vars

\* the user of the chat window
NextChat ==
    \/ ChatOpen
    \/ ChatClose
    \/ \E m \in AIModes : SetMode(m)
    \/ \E text \in ChatInputs : SetInput(text)
    \/ AskAI
    \/ \E id \in 1..MaxAsks : FetchSettle(id)

SpecChat == Init /\ [][NextChat]_vars

\* HR creates employees from any session
NextPeople ==
    \/ \E s \in Sessions, b \in CreateEmployeeBodies : CreateEmployeeStart(s, b)
    \/ \E s \in Sessions : CreateUserSettle(s)
    \/ \E s \in Sessions : CreateEmployeeSettle(s)

SpecPeople == Init /\ [][NextPeople]_vars

\* HR creates employees in one session while users log in from the other
NextLogin ==
    \/ \E b \in CreateEmployeeBodies : CreateEmployeeStart("s1", b)
    \/ CreateUserSettle("s1")
    \/ CreateEmployeeSettle("s1")
    \/ \E b \in LoginBodies : VerifyLoginStart("s2", b)
    \/ VerifyLoginSettle("s2")

SpecLogin == Init /\ [][NextLogin]_vars

(* ------------------------------------------------------------------ *)
(* The helper functions applied to arguments of bounded size            *)
(* ------------------------------------------------------------------ *)
\* user records as the stores hold them: employees with and without a
\* department, an HR user, a record without role
UserKinds ==
    {[fullName |-> <<"A">>, role |-> <<"EMPLOYEE">>, department |-> <<"Engineering">>],
     [fullName |-> <<"B">>, role |-> <<"EMPLOYEE">>, department |-> <<"Sales">>],
     [fullName |-> <<"C">>, role |-> <<"EMPLOYEE">>],
     [fullName |-> <<"H">>, role |-> <<"HR">>, department |-> <<"HR">>],
     [fullName |-> <<"X">>]}

\* the users mappings over the keys in K
UsersOver(K) == UNION {[S -> UserKinds] : S \in SUBSET K}

\* departments trees as POST /create-employee of revision C builds them
DepartmentTrees ==
    {Empty, SampleDepartments,
     <<"Engineering">> :> [u1 |-> SampleDepartments[<<"Engineering">>]["u1"]]}

\* sales records: with an amount, with a negative amount, without amount
SaleKinds == {[amount |-> 2], [amount |-> -1], [customer |-> "c"]}

\* the sequences over S of length at most n
SeqsUpTo(S, n) == UNION {[1..k -> S] : k \in 0..n}

\* the aggregates calculateMetrics is applied to
Aggregates ==
    {[users |-> u, departments |-> d, attendance |-> Empty, leaves |-> Empty,
      alerts |-> <<>>, performance |-> <<>>, sales |-> sl, projects |-> <<[name |-> "p"]>>] :
        u \in UsersOver({"a", "b"}), d \in DepartmentTrees,
        sl \in SeqsUpTo(SaleKinds, MaxSales)}

\* the aggregates pickRelevantData is applied to
SmallAggregates == {a \in Aggregates : a.departments = Empty /\ Len(a.sales) <= 1
                                       /\ DOMAIN a.users \subseteq {"a"}}

\* the words prompts are made of
Words ==
    {<<"A", "t", "t", "e", "n", "d", "a", "n", "c", "e">>,
     <<"l", "e", "a", "v", "e">>, <<"L", "E", "A", "V", "E", "S">>,
     <<"e", "m", "p", "l", "o", "y", "e", "e">>, <<"S", "t", "a", "f", "f">>,
     <<"p", "e", "r", "f", "o", "r", "m", "a", "n", "c", "e">>,
     <<"s", "a", "l", "e", "s">>, <<"r", "e", "v", "e", "n", "u", "e">>,
     <<"p", "r", "o", "j", "e", "c", "t">>, <<"R", "i", "s", "k">>,
     <<"g", "r", "o", "w", "t", "h">>, <<"h", "i", " ">>, <<"a", "t", "t", "e", "n", "d">>}

RECURSIVE Concat(_)
\* the words of ws written one after the other
Concat(ws) == IF ws = <<>> THEN <<>> ELSE Head(ws) \o Concat(Tail(ws))

\* the prompts detectIntent is applied to
IntentPrompts == {Concat(ws) : ws \in SeqsUpTo(Words, MaxWords)} \cup {NoPrompt}

Intents == {"ATTENDANCE", "LEAVE", "EMPLOYEE", "PERFORMANCE", "SALES", "PROJECT", "RISK",
            "GROWTH", "GENERAL"}

InitHelpers ==
    /\ now = 0
    /\ leaves = Empty
    /\ attendance = Empty
    /\ users = SampleUsers
    /\ departments = SampleDepartments
    /\ aiInsights = <<>>
    /\ aiAlerts = <<>>
    /\ firestore = SampleFirestore
    /\ http = [s \in Sessions |-> Idle]
    /\ lastAction = Empty
    /\ accounts = SampleAccounts
    /\ currentUser = SignedOut
    /\ notes = NoNotes
    /\ route = [path |-> "/", by |-> "user", before |-> "user"]
    /\ login = LoginPage
    /\ guard = Guarding
    /\ chat = ChatClosed
    /\ \/ /\ rev \in Revs
          /\ call \in {[pc |-> "args", fn |-> "calculateMetrics", data |-> a] :
                         a \in Aggregates}
       \/ /\ rev = "B"
          /\ call \in {[pc |-> "args", fn |-> "detectIntent", prompt |-> p] :
                         p \in IntentPrompts}
       \/ /\ rev = "B"
          /\ call \in {[pc |-> "args", fn |-> "pickRelevantData", intent |-> i,
                          data |-> a] : i \in Intents \cup {"OTHER"}, a \in SmallAggregates}

\* calculateMetrics(data) returns
CalculateMetricsCall ==
    /\ call.pc = "args" /\ call.fn = "calculateMetrics"
    /\ call' = [pc |-> "ret", fn |-> call.fn, data |-> call.data,
                out |-> calculateMetrics(rev, call.data)]
    /\ UNCHANGED <<frontend, rev, now, leaves, attendance, http, lastAction, people, aiStores>>

\* detectIntent(prompt) returns
DetectIntentCall ==
    /\ call.pc = "args" /\ call.fn = "detectIntent"
    /\ call' = [pc |-> "ret", fn |-> call.fn, prompt |-> call.prompt,
                out |-> detectIntent(call.prompt)]
    /\ UNCHANGED <<frontend, rev, now, leaves, attendance, http, lastAction, people, aiStores>>

\* pickRelevantData(intent, data) returns
PickRelevantDataCall ==
    /\ call.pc = "args" /\ call.fn = "pickRelevantData"
    /\ call' = [pc |-> "ret", fn |-> call.fn, intent |-> call.intent,
                data |-> call.data, out |-> pickRelevantData(call.intent, call.data)]
    /\ UNCHANGED <<frontend, rev, now, leaves, attendance, http, lastAction, people, aiStores>>

NextHelpers ==
    \/ CalculateMetricsCall
    \/ DetectIntentCall
    \/ PickRelevantDataCall

SpecHelpers == InitHelpers /\ [][NextHelpers]_vars

\* the four write endpoints, one request at a time
NextWrites ==
    \/ \E b \in {b \in CreateEmployeeBodies : b.email \in {<<"n@x">>, Missing}} :
          CreateEmployeeStart("s1", b)
    \/ CreateUserSettle("s1")
    \/ CreateEmployeeSettle("s1")
    \/ \E u \in {"u1", Undefined, ""} : AttendanceMarkStart("s1", u)
    \/ AttendanceMarkSettle("s1")
    \/ \E b \in {b \in LeaveRequestBodies : b.uid = "u1"} : LeaveRequestStart("s1", b)
    \/ LeaveRequestSettle("s1")
    \/ \E b \in LeaveActionBodies : LeaveActionStart("s1", b)
    \/ LeaveActionSettle("s1")

SpecWrites == Init /\ [][NextWrites]_vars

(* ------------------------------------------------------------------ *)
(* Claims about leaves                                                  *)
(* ------------------------------------------------------------------ *)
LeaveFields == {"uid", "from", "to", "reason", "createdAt"}

\* a record a leave request created
IsRequest(store, k) == k \in DOMAIN store /\ LeaveFields \subseteq DOMAIN store[k]

\* session s's request in flight for one of ops is answered in this step
Answered(s, ops) ==
    http[s].pc = "await" /\ http[s].op \in ops /\ http'[s].pc # "await"

\* every field of record k but status is in store2 what it is in store1
SameButStatus(store1, store2, k) ==
    /\ k \in DOMAIN store2
    /\ DOMAIN store2[k] \ {"status"} = DOMAIN store1[k] \ {"status"}
    /\ \A f \in DOMAIN store1[k] \ {"status"} : store2[k][f] = store1[k][f]

\* C1: a leave record whose status has become APPROVED or REJECTED never changes
\* status again.
C1_StatusMutatedOnce ==
    [][\A k \in DOMAIN leaves :
          (IsRequest(leaves, k) /\ leaves[k].status \in {"APPROVED", "REJECTED"})
              => leaves'[k].status = leaves[k].status]_vars

\* C2: POST /leave/action with status APPROVED on an existing PENDING record changes
\* that record's status field and nothing else: its other fields, every other
\* leave record, every user record and every attendance record stay as they were.
C2_ActionChangesOnlyStatus ==
    [][\A s \in Sessions :
          (/\ Answered(s, {"leave/action"})
           /\ http'[s].code = 200
           /\ http[s].status = "APPROVED"
           /\ IsRequest(leaves, http[s].id)
           /\ leaves[http[s].id].status = "PENDING")
          => (/\ DOMAIN leaves' = DOMAIN leaves
              /\ leaves'[http[s].id].status = "APPROVED"
              /\ SameButStatus(leaves, leaves', http[s].id)
              /\ \A j \in DOMAIN leaves \ {http[s].id} : leaves'[j] = leaves[j]
              /\ users' = users
              /\ departments' = departments
              /\ attendance' = attendance)]_vars

\* C2 witness: an approval through the endpoint has been applied to a requested
\* leave while a second leave record is stored.
C2_Witness ==
    \E k \in DOMAIN leaves :
        /\ IsRequest(leaves, k)
        /\ leaves[k].status = "APPROVED"
        /\ k \in DOMAIN lastAction
        /\ \E j \in DOMAIN leaves \ {k} : IsRequest(leaves, j)
        /\ \E s \in Sessions :
              http[s].pc = "done" /\ http[s].op = "leave/action" /\ http[s].code = 200

\* C3: every stored leave record has a status among PENDING, APPROVED, REJECTED
\* and carries uid, from, to and reason.
C3_LeaveRecordsWellFormed ==
    \A k \in DOMAIN leaves :
        /\ {"uid", "from", "to", "reason", "status"} \subseteq DOMAIN leaves[k]
        /\ leaves[k].status \in LeaveStatuses

\* C4: a status write (POST /leave/action or updateLeave) is never refused because
\* of another one in flight on the same leave: when the store applies it the record's
\* status becomes the written one whatever it was, the record's other fields stay,
\* and the endpoint answers {success: true}; the only other outcome is that the store
\* itself refused the write. So the stored status is always the one of the status
\* write the store applied last.
C4_LastWriteWins ==
    [][/\ \A s \in Sessions :
            Answered(s, {"leave/action", "updateLeave"}) =>
                \/ /\ http[s].id \in DOMAIN leaves'
                   /\ leaves'[http[s].id].status = http[s].status
                   /\ lastAction'[http[s].id] = http[s].status
                   /\ http[s].id \in DOMAIN leaves
                          => SameButStatus(leaves, leaves', http[s].id)
                   /\ http[s].op = "leave/action"
                          => (http'[s].code = 200 /\ http'[s].res = Ok)
                \/ /\ leaves' = leaves
                   /\ lastAction' = lastAction
                   /\ http[s].op = "leave/action"
                          => (http'[s].code = 500 /\ http'[s].res = Err(StoreError))
       /\ \A k \in DOMAIN lastAction' :
            k \in DOMAIN leaves' /\ leaves'[k].status = lastAction'[k]]_vars

\* C4 witness: updateLeave was issued while the record was PENDING and is still in
\* flight; meanwhile the endpoint has applied the opposite decision to the same
\* record and answered success.
C4_Witness ==
    \E s \in Sessions, t \in Sessions :
        /\ s # t
        /\ http[s].pc = "await" /\ http[s].op = "updateLeave"
        /\ IsRequest(leaves, http[s].id)
        /\ leaves[http[s].id].status \in {"APPROVED", "REJECTED"} \ {http[s].status}
        /\ lastAction[http[s].id] = leaves[http[s].id].status
        /\ http[t].pc = "done" /\ http[t].op = "leave/action" /\ http[t].code = 200

\* C5: every successful leave request (POST /leave/request or applyLeave) adds
\* exactly one record, under a key no record used, with status PENDING and the
\* submitted uid, from, to and reason, and leaves every stored record as it was.
C5_RequestAddsOneRecord ==
    [][\A s \in Sessions :
          (/\ Answered(s, {"leave/request", "applyLeave"})
           /\ \/ http'[s].code = 200
              \/ http'[s].res = [msg |-> "Leave applied"])
          => (/\ http[s].id \notin DOMAIN leaves
              /\ DOMAIN leaves' = DOMAIN leaves \cup {http[s].id}
              /\ Cardinality(DOMAIN leaves') = Cardinality(DOMAIN leaves) + 1
              /\ leaves'[http[s].id].status = "PENDING"
              /\ \A f \in {"uid", "from", "to", "reason"} :
                    leaves'[http[s].id][f] = http[s].req[f]
              /\ \A j \in DOMAIN leaves : leaves'[j] = leaves[j])]_vars

\* C5 witness: two requests of different users have been stored, one of them
\* already decided, and the endpoint has answered success.
C5_Witness ==
    /\ \E k \in DOMAIN leaves, j \in DOMAIN leaves :
          /\ IsRequest(leaves, k) /\ IsRequest(leaves, j)
          /\ leaves[k].uid # leaves[j].uid
          /\ leaves[k].status = "PENDING"
          /\ leaves[j].status = "REJECTED"
    /\ \E s \in Sessions :
          http[s].pc = "done" /\ http[s].op = "leave/request" /\ http[s].code = 200

(* ------------------------------------------------------------------ *)
(* Claims about attendance                                              *)
(* ------------------------------------------------------------------ *)
\* C6: once a record exists for a user and a date, no mark or check-in replaces or
\* alters it; the only change ever made to it is check-out adding the check-out
\* timestamp, once, and after that it never changes.
C6_AttendanceCreatedOnce ==
    [][\A k \in DOMAIN attendance :
          \/ attendance'[k] = attendance[k]
          \/ /\ "checkOut" \notin DOMAIN attendance[k]
             /\ \E t \in Times : attendance'[k] = Put(attendance[k], "checkOut", t)]_vars

\* the fields an insight entry of revision r has
InsightFields(r) ==
    IF r = "A" THEN {"prompt", "reply", "metrics", "createdAt"}
    ELSE {"prompt", "intent", "reply", "createdAt"}

\* session s answers in this step a request it was working on
Answers(s, op) ==
    /\ http[s].pc \in {"reads", "gen", "push"}
    /\ http[s].op = op
    /\ http'[s].pc = "done"

\* the body carries the generic message and nothing else
GenericFailure(res) == \A f \in DOMAIN res : res[f] = "AI failed"

\* C7: in /ai/query, when the completion succeeded and the append to the
\* insight log fails, the response is still a success carrying {reply} with
\* the completion's text, the same as when the append succeeds.
C7_ReplyDespiteAppendFailure ==
    [][\A s \in Sessions :
          (Answers(s, "ai/query") /\ http[s].pc = "push")
          => /\ http'[s].code = 200
             /\ http'[s].res = [reply |-> http[s].entry.reply]]_vars

C9_GenericCompletionFailure ==
    [][\A s \in Sessions :
          ((Answers(s, "ai/query") \/ Answers(s, "ai/auto-run"))
             /\ http'[s].failed = "completion")
          => /\ http'[s].code >= 400
             /\ GenericFailure(http'[s].res)
             /\ \A f \in DOMAIN http'[s].res :
                   http'[s].res[f] \notin ApiErrors \cup Replies
             /\ http'[s].calls = 1]_vars

\* the aggregate d is r's aggregate with the value of one of r's reads added
Filled(r, d) == \E x \in r.pend : d = Put(r.data, DataField(x), ReadValue(x))

\* C10: a request that is reading either records the value a read returned or,
\* when a read fails, ends at once with an error status, without having called
\* the completion API and with nothing appended to aiInsights or aiAlerts;
\* the completion API is called only with every field of the aggregate filled
\* by a read.
C10_ReadFailureFailsRequest ==
    [][\A s \in Sessions :
          (http[s].pc = "reads" /\ http'[s] # http[s])
          => \/ /\ http'[s].pc = "done"
                /\ http'[s].failed = "read"
                /\ http'[s].code >= 400
                /\ http'[s].calls = 0
                /\ UNCHANGED <<aiInsights, aiAlerts>>
             \/ /\ http'[s].pc = "reads"
                /\ Filled(http[s], http'[s].data)
             \/ /\ http'[s].pc = "gen"
                /\ http'[s].calls = 1
                /\ Filled(http[s], http'[s].data)
                /\ DOMAIN http'[s].data = DataFields(rev)]_vars

\* a later read failed after earlier ones had filled part of the aggregate:
\* the request is answered with an error and the logs are empty
C10_Witness ==
    \E s \in Sessions :
       /\ http[s].pc = "done" /\ http[s].failed = "read"
       /\ http[s].op = "ai/auto-run"
       /\ aiInsights = <<>> /\ aiAlerts = <<>>

\* the request s started in this step was refused as invalid, and nothing was
\* called or written for it
Refused(s) ==
    /\ http'[s].pc = "done"
    /\ http'[s].code = 400
    /\ "error" \in DOMAIN http'[s].res
    /\ UNCHANGED <<accounts, users, departments, attendance, leaves>>

\* C11: a request to create-employee, attendance/mark, leave/request or
\* leave/action in which a required field is missing is answered with status
\* 400 and an error message, and makes no identity-provider call and no store
\* write.
C11_MissingFieldRefused ==
    [][\A s \in Sessions :
          /\ \A b \in CreateEmployeeBodies :
                (MissingRequired(b) /\ CreateEmployeeStart(s, b)) => Refused(s)
          /\ \A u \in {Undefined, ""} : AttendanceMarkStart(s, u) => Refused(s)
          /\ \A b \in LeaveRequestBodies :
                ((\E f \in DOMAIN b : Falsy(b[f])) /\ LeaveRequestStart(s, b))
                => Refused(s)
          /\ \A b \in LeaveActionBodies :
                ((\E f \in DOMAIN b : Falsy(b[f])) /\ LeaveActionStart(s, b))
                => Refused(s)]_vars

\* session s answers in this step the create-employee request it was working on
Created(s) ==
    /\ http[s].pc = "set" /\ http[s].op = "create-employee"
    /\ http'[s].pc = "done" /\ http'[s].code = 200

\* record rec is stored under key uid for department d, in either layout
StoredUnder(d, uid, rec) ==
    \/ /\ d \in DOMAIN departments' /\ uid \in DOMAIN departments'[d]
       /\ departments'[d][uid] = rec
    \/ /\ uid \in DOMAIN users' /\ users'[uid] = rec
       /\ "department" \in DOMAIN rec /\ Trim(rec.department) = d

\* the user records of both layouts, as <<department or <<"users">>, key>>
RecordKeys(us, ds) ==
    {<<<<"users">>, u>> : u \in DOMAIN us}
    \cup UNION {{<<d, u>> : u \in DOMAIN ds[d]} : d \in DOMAIN ds}

\* C12: a successful create-employee request has created exactly one identity
\* account, writes exactly one User record keyed by that account's uid under
\* the submitted department with status ACTIVE, and answers {success, uid}
\* with that uid; for department Engineering the record is under Engineering
\* with accountType EMPLOYEE.
C12_CreateEmployeeWritesUser ==
    [][/\ \A s \in Sessions :
            Created(s)
            => LET uid == http[s].uid
                   d == Trim(http[s].req.department)
               IN /\ http'[s].res = [success |-> TRUE, uid |-> uid]
                  /\ uid \in DOMAIN accounts /\ accounts[uid] = http[s].req.email
                  /\ \E rec \in {http[s].rec} :
                        /\ StoredUnder(d, uid, rec)
                        /\ rec.status = "ACTIVE"
                        /\ d = <<"Engineering">>
                           => /\ "accountType" \in DOMAIN rec
                              /\ rec.accountType = "EMPLOYEE"
                  /\ Cardinality(RecordKeys(users', departments')
                                   \ RecordKeys(users, departments)) = 1
                  /\ \A u \in DOMAIN users : users'[u] = users[u]
                  /\ \A dd \in DOMAIN departments : \A u \in DOMAIN departments[dd] :
                        departments'[dd][u] = departments[dd][u]
       /\ accounts' # accounts
          => /\ Cardinality(DOMAIN accounts' \ DOMAIN accounts) = 1
             /\ \A u \in DOMAIN accounts : accounts'[u] = accounts[u]]_vars

\* the messages the identity provider raises
IdpMessages == {EmailExists, WeakPassword, InvalidEmail, IdpDown}

\* C13: when the identity provider rejects the account creation of
\* create-employee, the response is an error carrying the message the provider
\* raised, no User record is written and users and departments are unchanged.
C13_IdpRejectionSurfaces ==
    [][\A s \in Sessions :
          (http[s].pc = "idp" /\ http'[s].pc = "done" /\ accounts' = accounts)
          => /\ http'[s].code >= 400
             /\ "error" \in DOMAIN http'[s].res
             /\ http'[s].res.error \in IdpMessages
             /\ (http'[s].res.error \in {EmailExists, WeakPassword}
                 => http'[s].res.error
                      \in IdpRejections(http[s].req.email, http[s].req.password))
             /\ UNCHANGED <<users, departments>>]_vars

\* a duplicate email was rejected and the caller was told so
C13_Witness ==
    \E s \in Sessions :
       /\ http[s].pc = "done" /\ http[s].op = "create-employee"
       /\ http[s].res = Err(EmailExists)
       /\ \A u \in DOMAIN users : u \notin NewUids
       /\ \A d \in DOMAIN departments : DOMAIN departments[d] \cap NewUids = {}

\* the users stored under department d, and those of them with email e, with
\* role r as well, and active as well
Stored(d) == IF d \in DOMAIN departments THEN departments[d] ELSE Empty
WithEmail(d, e) == {k \in DOMAIN Stored(d) : Stored(d)[k].email = e}
WithRole(d, e, r) == {k \in WithEmail(d, e) : Stored(d)[k].role = r}
Active(d, e, r) == {k \in WithRole(d, e, r) : Stored(d)[k].status = "ACTIVE"}

\* the reason of the first check that fails for the claims e, d, r
FirstFailure(e, d, r) ==
    CASE FalsyText(e) \/ FalsyText(d) \/ FalsyText(r) -> "Missing login data"
      [] OTHER ->
         IF DOMAIN Stored(d) = {} THEN "Department not found"
         ELSE IF WithEmail(d, e) = {} THEN "User not found in department"
         ELSE IF WithRole(d, e, r) = {} THEN "Role mismatch"
         ELSE "User inactive"

\* session s answers a verify-login request in this step, at once or after
\* the read of the department
Verified(s) ==
    /\ rev = "C"
    /\ http'[s] # http[s]
    /\ http'[s].pc = "done"
    /\ http'[s].op = "auth/verify-login"

\* session s takes or answers a verify-login request in this step
Verifying(s) ==
    /\ http'[s] # http[s]
    /\ http'[s].op = "auth/verify-login"

\* a string that is not empty
NonEmpty(v) == v \notin {Missing, Null, NotAString, EmptyText}

\* C14 as stated: a verify-login request with non-empty email, department and
\* role, for which no user stored under the claimed department has the claimed
\* email (the department may have no users at all), is answered
\* {authorized: false, reason: "User not found in department"}.
C14_UnknownEmailUserNotFound ==
    [][\A s \in Sessions :
          Verified(s)
          => LET b == http'[s].raw
             IN (/\ NonEmpty(b.email) /\ NonEmpty(b.department) /\ NonEmpty(b.role)
                 /\ WithEmail(b.department, b.email) = {})
                => http'[s].res = Denied("User not found in department")]_vars

\* C14 amended: a verify-login request whose email, department and role are
\* non-empty after trimming, for which the claimed department has stored users
\* and none of them has the trimmed email, is answered {authorized: false,
\* reason: "User not found in department"} when the read of the department
\* succeeds; when the department has no stored users the reason is
\* "Department not found"; when the read fails the answer is 500 with reason
\* "Server error".
C14_UnknownEmailInDepartment ==
    [][\A s \in Sessions :
          Verified(s)
          => LET e == safeKey(http'[s].raw.email)
                 d == safeKey(http'[s].raw.department)
                 r == safeKey(http'[s].raw.role)
             IN (/\ ~FalsyText(e) /\ ~FalsyText(d) /\ ~FalsyText(r)
                 /\ WithEmail(d, e) = {})
                => /\ http[s].pc = "lookup"
                   /\ IF http'[s].code = 200
                      THEN http'[s].res =
                             Denied(IF DOMAIN Stored(d) = {}
                                    THEN "Department not found"
                                    ELSE "User not found in department")
                      ELSE /\ http'[s].code = 500
                           /\ http'[s].res = Denied("Server error")]_vars

\* the email of a user of another department was looked up in a department
\* that has users
C14_Witness ==
    \E s \in Sessions :
       /\ http[s].pc = "done" /\ http[s].op = "auth/verify-login"
       /\ http[s].res = Denied("User not found in department")
       /\ http[s].raw.email = <<"h@x">>

\* the answer to the claims e, d, r read from the store is the decision the
\* stored users call for
Decided(res, e, d, r) ==
    IF Active(d, e, r) # {} /\ ~FalsyText(e) /\ ~FalsyText(d) /\ ~FalsyText(r)
    THEN /\ res.authorized
         /\ res.uid \in Active(d, e, r)
    ELSE /\ ~res.authorized
         /\ DOMAIN res = {"authorized", "reason"}
         /\ res.reason = FirstFailure(e, d, r)

\* the claimed value as the client gave it, absent when it is not a string
Given(v) == IF NonEmpty(v) THEN v ELSE Missing

\* C15 as stated: verify-login answers authorized: true exactly when some user
\* stored under the claimed department has the claimed email, the claimed role
\* and status ACTIVE, the uid being that user's key; otherwise it answers
\* authorized: false without uid or dashboard, the reason being the first
\* failing check of missing data, department not found, user not found, role
\* mismatch, user inactive; it never writes to the store.
C15_AuthorizedIffActiveMatch ==
    [][\A s \in Sessions :
          /\ Verified(s)
             => Decided(http'[s].res, Given(http'[s].raw.email),
                        Given(http'[s].raw.department), Given(http'[s].raw.role))
          /\ Verifying(s)
             => UNCHANGED <<users, departments, accounts, leaves, attendance,
                            aiInsights, aiAlerts>>]_vars

\* C15 amended: with email, department and role trimmed, and when the read of
\* the department succeeds, verify-login answers authorized: true exactly when
\* a user stored under the department has that email, that role and status
\* ACTIVE, the uid being that user's key; otherwise authorized: false without
\* uid or dashboard, the reason being the first failing check of missing data,
\* department not found, user not found, role mismatch, user inactive. When
\* the read fails it answers 500 {authorized: false, reason: "Server error"}.
\* It never writes to the store.
C15_AuthorizedIffTrimmedMatch ==
    [][\A s \in Sessions :
          /\ Verified(s)
             => LET e == safeKey(http'[s].raw.email)
                    d == safeKey(http'[s].raw.department)
                    r == safeKey(http'[s].raw.role)
                IN IF http[s].pc = "lookup" /\ http'[s].code # 200
                   THEN /\ http'[s].code = 500
                        /\ http'[s].res = Denied("Server error")
                   ELSE /\ http'[s].code = 200
                        /\ Decided(http'[s].res, e, d, r)
                        /\ http[s].pc = "lookup"
                           <=> ~(FalsyText(e) \/ FalsyText(d) \/ FalsyText(r))
          /\ Verifying(s)
             => UNCHANGED <<users, departments, accounts, leaves, attendance,
                            aiInsights, aiAlerts>>]_vars

\* an employee created since was authorized under the uid of the new account
C15_Witness ==
    \E s \in Sessions :
       /\ http[s].pc = "done" /\ http[s].op = "auth/verify-login"
       /\ http[s].code = 200
       /\ http[s].res.authorized /\ http[s].res.uid \in NewUids

\* calculateMetrics has returned
Calculated == call.pc = "ret" /\ call.fn = "calculateMetrics"

\* C16: for every aggregate, with users that have no department, users of
\* other roles and an empty users mapping among them, the values of
\* departmentWise add up to totalEmployees, in each revision.
C16_DepartmentWiseSumsToTotal ==
    Calculated
    => SumCounts(call.out.departmentWise, DOMAIN call.out.departmentWise)
         = call.out.totalEmployees

\* metrics of an aggregate with an employee without department and an HR user
C16_Witness ==
    /\ Calculated
    /\ rev = "A"
    /\ \E u \in DOMAIN call.data.users :
          /\ "role" \in DOMAIN call.data.users[u]
          /\ call.data.users[u].role = <<"EMPLOYEE">>
          /\ "department" \notin DOMAIN call.data.users[u]
    /\ \E u \in DOMAIN call.data.users :
          /\ "role" \in DOMAIN call.data.users[u]
          /\ call.data.users[u].role = <<"HR">>
    /\ call.out.totalEmployees = 1

\* the keys of the user records the revision's calculateMetrics reads
KeysCounted(data) ==
    IF rev = "C"
    THEN UNION {{<<d, u>> : u \in DOMAIN data.departments[d]} :
                   d \in DOMAIN data.departments}
    ELSE {<<<<"users">>, u>> : u \in DOMAIN data.users}

RecordAt(data, k) ==
    IF rev = "C" THEN data.departments[k[1]][k[2]] ELSE data.users[k[2]]

IsEmployee(rec) == "role" \in DOMAIN rec /\ rec.role = <<"EMPLOYEE">>

\* C17: totalEmployees is the number of stored user records whose role is
\* EMPLOYEE, and records of any other role are counted neither in
\* totalEmployees nor in departmentWise, in each revision, the one that reads
\* the departments tree included.
C17_TotalCountsEmployeeRole ==
    Calculated
    => LET employees == {k \in KeysCounted(call.data) :
                            IsEmployee(RecordAt(call.data, k))}
       IN /\ call.out.totalEmployees = Cardinality(employees)
          /\ SumCounts(call.out.departmentWise, DOMAIN call.out.departmentWise)
               = Cardinality(employees)

RECURSIVE AmountOver(_, _)
\* the amounts of the records of sales at the positions in I, added up
AmountOver(sales, I) ==
    IF I = {} THEN 0
    ELSE LET i == CHOOSE x \in I : TRUE
         IN (IF "amount" \in DOMAIN sales[i] THEN sales[i].amount ELSE 0)
            + AmountOver(sales, I \ {i})

\* C18: totalSales is the sum of amount over the sales records, a record
\* without amount adding 0; it is 0 for the empty sequence, and the same for
\* every order of the records.
C18_TotalSalesIsSum ==
    (Calculated /\ rev \in {"A", "B"})
    => LET sales == call.data.sales IN
       /\ call.out.totalSales = AmountOver(sales, DOMAIN sales)
       /\ sales = <<>> => call.out.totalSales = 0
       /\ \A q \in Permutations(DOMAIN sales) :
             calculateMetrics(rev, [call.data EXCEPT
                 !.sales = [i \in DOMAIN sales |-> sales[q[i]]]]).totalSales
               = call.out.totalSales

\* sales with a record without amount between two with amounts
C18_Witness ==
    /\ Calculated /\ rev = "B"
    /\ Len(call.data.sales) = MaxSales
    /\ \E i \in DOMAIN call.data.sales : "amount" \notin DOMAIN call.data.sales[i]
    /\ \E i \in DOMAIN call.data.sales :
          "amount" \in DOMAIN call.data.sales[i] /\ call.data.sales[i].amount = -1
    /\ call.out.totalSales = -1

\* the rules of the classifier in their order: the keywords and the label
IntentRules ==
    <<[words |-> {<<"a", "t", "t", "e", "n", "d", "a", "n", "c", "e">>},
       label |-> "ATTENDANCE"],
      [words |-> {<<"l", "e", "a", "v", "e">>}, label |-> "LEAVE"],
      [words |-> {<<"e", "m", "p", "l", "o", "y", "e", "e">>,
                  <<"s", "t", "a", "f", "f">>}, label |-> "EMPLOYEE"],
      [words |-> {<<"p", "e", "r", "f", "o", "r", "m", "a", "n", "c", "e">>},
       label |-> "PERFORMANCE"],
      [words |-> {<<"s", "a", "l", "e", "s">>, <<"r", "e", "v", "e", "n", "u", "e">>},
       label |-> "SALES"],
      [words |-> {<<"p", "r", "o", "j", "e", "c", "t">>}, label |-> "PROJECT"],
      [words |-> {<<"r", "i", "s", "k">>}, label |-> "RISK"],
      [words |-> {<<"g", "r", "o", "w", "t", "h">>}, label |-> "GROWTH"]>>

\* w occurs in p at some position
Occurs(w, p) ==
    \E i \in 1..Len(p) :
       /\ i + Len(w) - 1 <= Len(p)
       /\ \A j \in 1..Len(w) : p[i + j - 1] = w[j]

\* the rules with a keyword in the lower-cased text p
Matching(p) ==
    {i \in DOMAIN IntentRules : \E w \in IntentRules[i].words : Occurs(w, p)}

\* C19: for every prompt, empty and absent included, the classifier returns
\* one label of the nine: that of the first rule, in the order attendance,
\* leave, employee/staff, performance, sales/revenue, project, risk, growth,
\* with a keyword in the lower-cased prompt, and GENERAL exactly when no
\* keyword occurs; a prompt containing "attendance" in any letter case yields
\* ATTENDANCE whatever else it contains.
C19_FirstMatchingRule ==
    (call.pc = "ret" /\ call.fn = "detectIntent")
    => LET p == toLowerCase(IF call.prompt = NoPrompt THEN <<>> ELSE call.prompt)
           m == Matching(p)
       IN /\ call.out \in Intents
          /\ IF m = {} THEN call.out = "GENERAL"
             ELSE call.out = IntentRules[CHOOSE i \in m : \A j \in m : i <= j].label
          /\ 1 \in m => call.out = "ATTENDANCE"

\* "LEAVESAttendance": a later rule's keyword comes first in the prompt
C19_Witness ==
    /\ call.pc = "ret" /\ call.fn = "detectIntent"
    /\ call.prompt # NoPrompt
    /\ Len(call.prompt) > 10
    /\ SubSeq(call.prompt, 1, 6) = <<"L", "E", "A", "V", "E", "S">>
    /\ call.out = "ATTENDANCE"

\* the fields of the aggregate that are relevant to an intent
Relevant(intent, data) ==
    CASE intent = "EMPLOYEE" -> {"users"}
      [] intent = "ATTENDANCE" -> {"attendance", "users"}
      [] intent = "LEAVE" -> {"leaves", "users"}
      [] intent = "PERFORMANCE" -> {"performance"}
      [] intent = "SALES" -> {"sales"}
      [] intent = "PROJECT" -> {"projects"}
      [] OTHER -> DOMAIN data

\* C20: for every aggregate and intent the selector returns an object whose
\* fields are exactly those relevant to the intent, each equal to the
\* aggregate's field: EMPLOYEE gives users; ATTENDANCE attendance and users;
\* LEAVE leaves and users; PERFORMANCE, SALES and PROJECT their one
\* collection; RISK, GROWTH, GENERAL and unknown labels the whole aggregate.
\* The aggregate is not modified.
C20_RelevantFieldsOnly ==
    [][(call.pc = "args" /\ call.fn = "pickRelevantData" /\ call'.pc = "ret")
       => /\ DOMAIN call'.out = Relevant(call.intent, call.data)
          /\ \A f \in DOMAIN call'.out : call'.out[f] = call.data[f]
          /\ call.intent \in {"RISK", "GROWTH", "GENERAL", "OTHER"}
             => call'.out = call.data
          /\ call'.data = call.data]_vars

\* the selector applied with EMPLOYEE to an aggregate with users and sales
C20_Witness ==
    /\ call.pc = "ret" /\ call.fn = "pickRelevantData"
    /\ call.intent = "EMPLOYEE"
    /\ call.data.users # Empty /\ call.data.sales # <<>>
    /\ DOMAIN call.out = {"users"}

\* session s has handed a prompt of the chat window to the completion API
Prompted(s) == http[s].pc = "gen" /\ http[s].op = "ai/query"

\* the parts of a prompt text that carry company data
CompanyParts == {"metrics", "data"}

\* C21: when /ai/query is called with mode GEMI the prompt sent to the
\* completion API holds no company data, neither metrics nor records, so two
\* requests with the same question send the same text whatever the stores
\* hold; with mode JARVIS or BOTH the company data is included.
C21_GemiPromptWithoutCompanyData ==
    /\ \A s \in Sessions :
          (Prompted(s) /\ http[s].raw.mode = "GEMI")
          => DOMAIN http[s].sent \cap CompanyParts = {}
    /\ \A s1, s2 \in Sessions :
          (/\ Prompted(s1) /\ Prompted(s2)
           /\ http[s1].raw.mode = "GEMI" /\ http[s2].raw.mode = "GEMI"
           /\ http[s1].prompt = http[s2].prompt)
          => http[s1].sent = http[s2].sent
    /\ \A s \in Sessions :
          (Prompted(s) /\ http[s].raw.mode \in {"JARVIS", "BOTH"})
          => CompanyParts \subseteq DOMAIN http[s].sent

\* the requests of getCompanyData that are awaiting reads
Reading == {s \in Sessions : http[s].pc = "reads"}

\* the reads of request r that have completed, in flight, not yet issued
Completed(r) == {x \in AllReads : DataField(x) \in DOMAIN r.data}
InFlight(r) == r.pend
NotIssued(r) == {r.todo[i] : i \in 1..Len(r.todo)}

\* the document-store reads of revision v before its i-th
Earlier(v, i) == {FirestoreReads(v)[j] : j \in 1..(i - 1)}

\* the aggregate of request r is built from every read
Joined(r) == DOMAIN r.data = DataFields(rev)

AuthorizedCreated ==
    {s \in Sessions : /\ http[s].pc = "done"
                      /\ http[s].op = "auth/verify-login"
                      /\ http[s].code = 200
                      /\ http[s].res.authorized
                      /\ http[s].res.uid \in NewUids}

\* the record verify-login found for the login session s answered
FoundUser(s) == departments[Trim(http[s].raw.department)][http[s].res.uid]

\* C23: for a user created through create-employee and later authorized by
\* verify-login, the dashboard hint is "/hr/dashboard" exactly when the user's
\* stored accountType is HR, which create-employee sets exactly when the
\* trimmed department equals "HR Department", and "/employee/dashboard"
\* otherwise; a user created in a department of the HR dashboard's list is
\* routed to the dashboard matching their account type.
C23_DashboardFollowsAccountType ==
    \A s \in AuthorizedCreated :
        LET hint == http[s].res.dashboard
            type == FoundUser(s).accountType
        IN /\ hint \in {"/hr/dashboard", "/employee/dashboard"}
           /\ hint = "/hr/dashboard" <=> type = "HR"
           /\ type = "HR"
              <=> Trim(http[s].raw.department) = <<"HR", " ", "Department">>
           /\ type \in {"HR", "EMPLOYEE"}

\* a user created in department "HR" with role HR logs in and is sent to the
\* employee dashboard
C23_Witness ==
    \E s \in AuthorizedCreated :
        /\ http[s].raw.department = <<"HR">>
        /\ http[s].raw.role = <<"HR">>
        /\ http[s].res.dashboard = "/employee/dashboard"

\* a User record is keyed by uid, in either layout
HasUserRecord(uid) ==
    \/ uid \in DOMAIN users
    \/ \E d \in DOMAIN departments : uid \in DOMAIN departments[d]

\* a create-employee request still holds the account uid to write its record
BeingWritten(uid) ==
    \E s \in Sessions : http[s].pc = "set" /\ http[s].uid = uid

\* the accounts create-employee made whose request has ended
SettledAccounts == {uid \in DOMAIN accounts \cap NewUids : ~BeingWritten(uid)}

\* C24: after any sequence of create-employee requests, including ones in
\* which the store write fails after the account was created, every account
\* create-employee made has a User record keyed by its identifier (there is
\* no orphan account), and every request that created an account answered
\* success with that uid.
C24_NoOrphanAccount ==
    [][/\ \A uid \in SettledAccounts' : HasUserRecord(uid)'
       /\ \A s \in Sessions :
             (/\ http'[s].pc = "done"
              /\ \/ http[s].pc = "idp" /\ accounts' # accounts
                 \/ http[s].pc = "set")
             => /\ http'[s].code = 200
                /\ http[s].pc = "set"
                /\ http'[s].res = [success |-> TRUE, uid |-> http[s].uid]]_vars

\* the Login handler returns in this step
HandlerEnds ==
    \/ login.pc \in {"signin", "get"} /\ login'.pc = "idle"
    \/ \E f \in LoginForms : LoginStart(f) /\ login'.pc = "idle"

\* the Login handler navigates to a dashboard in this step
HandlerNavigates ==
    /\ HandlerEnds
    /\ route' # route
    /\ route'.path \in Dashboards

\* every check of the handler passes for what it holds
ChecksPass ==
    /\ login.pc = "get"
    /\ login.uid \in DOMAIN accounts
    /\ accounts[login.uid] = login.form.email
    /\ login.uid \in DOMAIN users
    /\ "role" \in DOMAIN users[login.uid]
    /\ users[login.uid].role = login.form.role
    /\ login.form.role = <<"EMPLOYEE">>
       => /\ "department" \in DOMAIN users[login.uid]
          /\ users[login.uid].department = login.form.department

\* C25: the Login handler navigates to a dashboard only when sign-in
\* succeeded, the record users/{uid} exists, its role equals the selected
\* role and, for role EMPLOYEE, its department equals the selected one; the
\* target is /hr/dashboard for HR and /employee/dashboard for EMPLOYEE. In
\* every other outcome an error message is set and the handler does not
\* navigate; after any attempt that reached the sign-in call, loading is
\* false again.
C25_LoginNavigatesOnlyWhenChecked ==
    [][HandlerEnds
       => /\ HandlerNavigates
             => /\ ChecksPass
                /\ login.form.role \in {<<"HR">>, <<"EMPLOYEE">>}
                /\ login.form.role = <<"HR">> => route'.path = "/hr/dashboard"
                /\ login.form.role = <<"EMPLOYEE">>
                   => route'.path = "/employee/dashboard"
          /\ ~HandlerNavigates => (login'.error # "" /\ route' = route)
          /\ login'.loading = FALSE]_vars

\* a signed-in employee picked the wrong department: the handler set the
\* error and went nowhere
C25_Witness ==
    /\ login.pc = "idle"
    /\ login.error = "Wrong department selected"
    /\ ~login.loading
    /\ currentUser = "u1"
    /\ route.path = "/login"

\* the Login page's listener navigates in this step
ListenerNavigates == route' # route /\ route'.by = "listener"

\* the dashboard of the role stored for uid
DashboardFor(uid) ==
    IF users[uid].role = <<"HR">> THEN "/hr/dashboard" ELSE "/employee/dashboard"

\* C26: after a login attempt that passes every check the final route is the
\* dashboard of the user's role under every interleaving of the handler with
\* the Login page's auth-state listener, which navigates to "/" as soon as it
\* sees a signed-in user: the listener's navigation is never the last one.
C26_HandlerNavigatesLast ==
    [][/\ HandlerNavigates
          => /\ route'.path = DashboardFor(login.uid)
             /\ route'.by = "Login"
             /\ login'.went = route'.path
       /\ login.went # "none" => ~ListenerNavigates
       /\ login'.went # "none"
          => /\ notes'["Login"] = <<>>
             /\ route'.by \in {"Login", "listener"}
                => (route'.by = "Login" /\ route'.path = login'.went)]_vars

\* the listener had navigated to "/" before the handler finished its checks,
\* and the handler's navigation came last
C26_Witness ==
    /\ login.went = "/hr/dashboard"
    /\ route.path = "/hr/dashboard"
    /\ route.by = "Login"
    /\ route.before = "listener"
    /\ currentUser = "h1"

\* the role stored under users for the signed-in user
StoredRole ==
    IF currentUser \in DOMAIN users /\ "role" \in DOMAIN users[currentUser]
    THEN users[currentUser].role ELSE Missing

\* C27: the route /hr/dashboard renders HRDashboard only while the auth state
\* has resolved to a signed-in user whose stored role is HR: never while the
\* auth state is loading, never for a signed-out visitor, and never for a
\* signed-in EMPLOYEE, including one whose Login attempt ended with "Role
\* mismatch" or "Wrong department selected" after sign-in had succeeded.
C27_HrDashboardOnlyForHr ==
    Rendered("/hr/dashboard")
    => /\ ~guard.loading
       /\ guard.user
       /\ currentUser # SignedOut => StoredRole = <<"HR">>

\* the messages of a role in the chat
ByRole(ms, role) == {i \in DOMAIN ms : ms[i].role = role}

\* askAI is called in this step; a request of it ends in this step
Asks == chat'.asked = chat.asked + 1
Ends == \E q \in chat.pending : q \notin chat'.pending

\* C28: in FloatingAIChat, under any sequence of submissions (a question may
\* be submitted while an earlier one still awaits its reply), every non-empty
\* question appends exactly one user message and, once its request has ended,
\* exactly one ai message (the reply or a fallback text); empty or
\* whitespace-only input appends nothing; loading is true exactly while at
\* least one request is outstanding.
C28_OneReplyEachAndLoadingWhileOutstanding ==
    [][/\ (Asks /\ \A j \in DOMAIN chat.input : chat.input[j] = " ")
          => /\ chat'.messages = chat.messages
             /\ chat'.pending = chat.pending
       /\ (Asks /\ \E j \in DOMAIN chat.input : chat.input[j] # " ")
          => /\ Len(chat'.messages) = Len(chat.messages) + 1
             /\ chat'.messages[Len(chat'.messages)].role = "user"
             /\ chat'.messages[Len(chat'.messages)].text = chat.input
             /\ Cardinality(chat'.pending) = Cardinality(chat.pending) + 1
       /\ Ends
          => /\ Len(chat'.messages) = Len(chat.messages) + 1
             /\ chat'.messages[Len(chat'.messages)].role = "ai"
             /\ chat'.messages[Len(chat'.messages)].text # EmptyText
             /\ Cardinality(chat'.pending) = Cardinality(chat.pending) - 1
       /\ Cardinality(ByRole(chat'.messages, "user"))
            = Cardinality(ByRole(chat'.messages, "ai")) + Cardinality(chat'.pending)
       /\ chat'.loading <=> chat'.pending # {}]_vars

================================================================
